---- MODULE Spec2Model ----
(***************************************************************************)
(* Model of ush/metviewer/make_multi_mv_vx_plots.py: one run of main()     *)
(* followed by make_multi_mv_vx_plots(): validation of the include/exclude *)
(* options, reduction of the plot configuration dictionary axis by axis,   *)
(* the dead-filter warnings and the dispatch loop that calls               *)
(* make_single_mv_vx_plot() once per metric-field-level-threshold          *)
(* combination.                                                            *)
(*                                                                         *)
(* A Python dict is an ordered mapping: it is modelled as a sequence of    *)
(* <<key, value>> pairs in insertion order.  The plot configuration        *)
(* dictionary is metric -> field -> level -> list of thresholds.           *)
(***************************************************************************)
EXTENDS Integers, Sequences, FiniteSets, TLC

(***************************************************************************)
(* Bounds of the model.                                                    *)
(***************************************************************************)
\* Largest total number of values passed to the eight --incl_only_* and
\* --excl_* options of one run.
MaxFilterVals == 2
\* Largest number of jobs of one run whose image is not produced.
MaxMissing == 1

(***************************************************************************)
(* Domain vocabulary (valid_vx_plot_params.yaml, mv_databases.yaml).       *)
(***************************************************************************)
valid_vx_metrics == <<"auc", "bias">>
valid_fcst_fields == <<"apcp", "tmp">>
valid_fcst_levels == <<"03h", "2m">>
vx_metric_needs_thresh == [m \in {"auc", "bias"} |-> m = "auc"]
valid_threshes_for_db == <<"ge1", "ge5">>
\* Threshold tokens that are not valid for the database.
ThreshesNotInDb == {"ge9", "lt0"}

(***************************************************************************)
(* Helpers for sequences and ordered mappings.                             *)
(***************************************************************************)
Range(s) == {s[i] : i \in DOMAIN s}

\* Keys of a dict.
Keys(d) == {d[i][1] : i \in DOMAIN d}

\* d[k] for a key the dict has.
Get(d, k) == d[CHOOSE i \in DOMAIN d : d[i][1] = k][2]

\* [d.pop(k, None) for k in ks]: the remaining keys keep their order.
PopEach(d, ks) == SelectSeq(d, LAMBDA e : e[1] \notin ks)

\* The dict with every value v of key k replaced by F(k, v).
MapVals(d, F(_, _)) == [i \in DOMAIN d |-> <<d[i][1], F(d[i][1], d[i][2])>>]

RECURSIVE Flatten(_)
\* Concatenation of a sequence of sequences.
Flatten(ss) == IF ss = <<>> THEN <<>> ELSE Head(ss) \o Flatten(Tail(ss))

RECURSIVE SeqProduct(_)
\* All sequences that take their i-th element from the i-th set.
SeqProduct(ss) ==
  IF ss = <<>> THEN {<<>>}
  ELSE {<<h>> \o t : h \in Head(ss), t \in SeqProduct(Tail(ss))}

\* All orders in which the elements of a set can be listed.
ListingsOf(S) ==
  {s \in [1..Cardinality(S) -> S] : \A i, j \in 1..Cardinality(S) : s[i] = s[j] => i = j}

(***************************************************************************)
(* The command-line options.                                               *)
(***************************************************************************)
OptionNames == {"incl_only_metrics", "excl_metrics",
                "incl_only_fields", "excl_fields",
                "incl_only_levels", "excl_levels",
                "incl_only_threshes", "excl_threshes"}

\* The values argparse accepts for an option: the choices of the metric,
\* field and level options; any string for the threshold options.
OptionChoices(o) ==
  CASE o \in {"incl_only_metrics", "excl_metrics"} -> Range(valid_vx_metrics)
    [] o \in {"incl_only_fields", "excl_fields"} -> Range(valid_fcst_fields)
    [] o \in {"incl_only_levels", "excl_levels"} -> Range(valid_fcst_levels)
    [] OTHER -> Range(valid_threshes_for_db) \cup ThreshesNotInDb

NoArgs == [o \in OptionNames |-> <<>>]

\* The namespace parse_args() returns for a command line that passes the
\* values picks[1], picks[2], ... (each an <<option, value>> pair).
ParsedArgs(picks) ==
  [o \in OptionNames |->
     LET sel == SelectSeq(picks, LAMBDA p : p[1] = o)
     IN [i \in DOMAIN sel |-> sel[i][2]]]

Picks == {<<o, v>> : o \in OptionNames, v \in Range(valid_vx_metrics) \cup Range(valid_fcst_fields)
                                             \cup Range(valid_fcst_levels)
                                             \cup Range(valid_threshes_for_db) \cup ThreshesNotInDb}
ValidPicks == {p \in Picks : p[2] \in OptionChoices(p[1])}

CommandLines == UNION {[1..n -> ValidPicks] : n \in 0..MaxFilterVals}

(***************************************************************************)
(* Plot configuration dictionaries the plot configuration file can hold    *)
(* (entry metrics_fields_levels_threshes).                                 *)
(***************************************************************************)
\* One key: value entry of a dict.
E(k, v) == <<k, v>>

\* {bias: {tmp: {2m: []}}}
TreeBias == << E("bias", << E("tmp", << E("2m", <<>>) >>) >>) >>

\* {auc: {apcp: {03h: [ge1, ge5]}}, bias: {tmp: {2m: []}}}
TreeOrder ==
  << E("auc", << E("apcp", << E("03h", <<"ge1", "ge5">>) >>) >>),
     E("bias", << E("tmp", << E("2m", <<>>) >>) >>) >>

\* Two metrics, two fields, two levels, two thresholds: 8 + 4 = 12 jobs.
TreeTwelve ==
  << E("auc", << E("apcp", << E("03h", <<"ge1", "ge5">>), E("2m", <<"ge1", "ge5">>) >>),
                 E("tmp", << E("03h", <<"ge1", "ge5">>), E("2m", <<"ge1", "ge5">>) >>) >>),
     E("bias", << E("apcp", << E("03h", <<>>), E("2m", <<>>) >>),
                  E("tmp", << E("03h", <<>>), E("2m", <<>>) >>) >>) >>

\* Keys and thresholds listed in the reverse of the vocabulary's order.
TreeReversed ==
  << E("bias", << E("tmp", << E("2m", <<>>), E("03h", <<>>) >>),
                  E("apcp", << E("03h", <<>>) >>) >>),
     E("auc", << E("tmp", << E("2m", <<"ge5", "ge1">>) >>),
                 E("apcp", << E("03h", <<"ge1">>) >>) >>) >>

\* Leaves of one metric with different thresholds.
TreeAucOnly ==
  << E("auc", << E("apcp", << E("03h", <<"ge1">>) >>),
                 E("tmp", << E("2m", <<"ge5">>), E("03h", <<"ge5", "ge1">>) >>) >>) >>

\* A threshold listed twice.
TreeRepeated ==
  << E("auc", << E("apcp", << E("03h", <<"ge1", "ge1", "ge5">>) >>) >>),
     E("bias", << E("apcp", << E("03h", <<>>) >>) >>) >>

\* A metric that needs a threshold with an empty list (second leaf of auc).
TreeMissingThresh ==
  << E("bias", << E("tmp", << E("2m", <<>>) >>) >>),
     E("auc", << E("apcp", << E("03h", <<"ge1">>), E("2m", <<>>) >>) >>) >>

\* A metric that needs no threshold with a non-empty list.
TreeUnneededThresh ==
  << E("auc", << E("apcp", << E("03h", <<"ge1">>) >>) >>),
     E("bias", << E("tmp", << E("2m", <<"ge1">>) >>) >>) >>

\* Empty sub-dictionaries.
TreeEmptyBranches ==
  << E("auc", <<>>),
     E("bias", << E("tmp", <<>>), E("apcp", << E("2m", <<>>) >>) >>) >>

\* A field that is not in valid_fcst_fields.
TreeUnknownField ==
  << E("bias", << E("rh", << E("2m", <<>>) >>), E("tmp", << E("2m", <<>>) >>) >>) >>

\* A metric that is not in valid_vx_metrics.
TreeUnknownMetric ==
  << E("bias", << E("tmp", << E("2m", <<>>) >>) >>),
     E("foo", << E("tmp", << E("2m", <<>>) >>) >>) >>

\* A threshold that is not valid for the database.
TreeThreshNotInDb ==
  << E("bias", << E("tmp", << E("2m", <<>>) >>) >>),
     E("auc", << E("apcp", << E("03h", <<"ge1", "ge9">>) >>) >>) >>

\* An empty dictionary.
TreeEmpty == <<>>

PlotConfigs == {TreeBias, TreeOrder, TreeTwelve, TreeReversed, TreeAucOnly,
                TreeRepeated, TreeMissingThresh, TreeUnneededThresh,
                TreeEmptyBranches, TreeUnknownField, TreeUnknownMetric,
                TreeThreshNotInDb, TreeEmpty}

(***************************************************************************)
(* Traversals of the plot configuration dictionary.                        *)
(***************************************************************************)
\* The <<metric, field, level, threshes_list>> leaves in the order of the
\* nested loops "for metric ... for field ... for level ...".
Leaves(d) ==
  Flatten([i \in DOMAIN d |->
    Flatten([j \in DOMAIN d[i][2] |->
      [k \in DOMAIN d[i][2][j][2] |->
         <<d[i][1], d[i][2][j][1], d[i][2][j][2][k][1], d[i][2][j][2][k][2]>>]])])

FieldsIn(d) == UNION {Keys(d[i][2]) : i \in DOMAIN d}
LevelsIn(d) == {lf[3] : lf \in Range(Leaves(d))}
ThreshesIn(d) == UNION {Range(lf[4]) : lf \in Range(Leaves(d))}

\* The values of an axis that occur in the dictionary.
ValuesIn(d, axis) ==
  CASE axis = "metric" -> Keys(d)
    [] axis = "field" -> FieldsIn(d)
    [] axis = "level" -> LevelsIn(d)
    [] OTHER -> ThreshesIn(d)

Axes == <<"metric", "field", "level", "thresh">>

InclOpt(axis) ==
  CASE axis = "metric" -> "incl_only_metrics"
    [] axis = "field" -> "incl_only_fields"
    [] axis = "level" -> "incl_only_levels"
    [] OTHER -> "incl_only_threshes"

ExclOpt(axis) ==
  CASE axis = "metric" -> "excl_metrics"
    [] axis = "field" -> "excl_fields"
    [] axis = "level" -> "excl_levels"
    [] OTHER -> "excl_threshes"

AxisOf(o) ==
  CASE o \in {"incl_only_metrics", "excl_metrics"} -> "metric"
    [] o \in {"incl_only_fields", "excl_fields"} -> "field"
    [] o \in {"incl_only_levels", "excl_levels"} -> "level"
    [] OTHER -> "thresh"

\* The options in the order in which the function goes through them.
OptionOrder == <<"incl_only_metrics", "excl_metrics", "incl_only_fields", "excl_fields",
                 "incl_only_levels", "excl_levels", "incl_only_threshes", "excl_threshes">>

\* The first axis (in the order metric, field, level, thresh) that
\* satisfies P, or "" when none does.
FirstAxis(P(_)) ==
  IF \E i \in DOMAIN Axes : P(Axes[i])
  THEN Axes[CHOOSE i \in DOMAIN Axes : P(Axes[i]) /\ \A j \in 1..(i-1) : ~P(Axes[j])]
  ELSE ""

(***************************************************************************)
(* main(): the include-only and the exclude option of an axis cannot both  *)
(* be specified.                                                           *)
(***************************************************************************)
BothSpecified(a, axis) == a[InclOpt(axis)] # <<>> /\ a[ExclOpt(axis)] # <<>>

\* MutexErrorAxis without the check of the threshold options.
MutexErrorAxis_NoThreshCheck(a) ==
  FirstAxis(LAMBDA axis : axis # "thresh" /\ BothSpecified(a, axis))

\* The axis main() raises ValueError for, "" when it raises none.
MutexErrorAxis(a) == FirstAxis(LAMBDA axis : BothSpecified(a, axis))

(***************************************************************************)
(* Validation of the threshold options against the database.               *)
(***************************************************************************)
\* threshes_not_in_db that stops at the first offending threshold.
threshes_not_in_db_FirstOnly(threshes_list_for_option) ==
  LET bad == SelectSeq(threshes_list_for_option, LAMBDA t : t \notin Range(valid_threshes_for_db))
  IN IF bad = <<>> THEN {} ELSE {Head(bad)}

\* threshes_not_in_db for one option.
threshes_not_in_db(threshes_list_for_option) ==
  Range(threshes_list_for_option) \ Range(valid_threshes_for_db)

\* ThreshErrorOption that looks at the include-only option only.
ThreshErrorOption_InclOnly(a) ==
  IF threshes_not_in_db(a["incl_only_threshes"]) # {} THEN "incl_only_threshes"
  ELSE ""

\* The option the loop over ['incl_only_threshes', 'excl_threshes'] raises
\* ValueError for, "" when it raises none.
ThreshErrorOption(a) ==
  IF threshes_not_in_db(a["incl_only_threshes"]) # {} THEN "incl_only_threshes"
  ELSE IF threshes_not_in_db(a["excl_threshes"]) # {} THEN "excl_threshes"
  ELSE ""

(***************************************************************************)
(* Check of the threshold lists of the plot configuration file against     *)
(* vx_metric_needs_thresh.                                                 *)
(***************************************************************************)
\* LeafFault without the elif branch for lists that are not needed.
LeafFault_NoElif(leaf) ==
  IF leaf[1] \notin DOMAIN vx_metric_needs_thresh THEN "KeyError"
  ELSE IF vx_metric_needs_thresh[leaf[1]] /\ leaf[4] = <<>> THEN "EmptyThreshList"
  ELSE ""

\* What the body of the triple loop does for one leaf.
LeafFault(leaf) ==
  IF leaf[1] \notin DOMAIN vx_metric_needs_thresh THEN "KeyError"
  ELSE IF vx_metric_needs_thresh[leaf[1]] /\ leaf[4] = <<>> THEN "EmptyThreshList"
  ELSE IF ~vx_metric_needs_thresh[leaf[1]] /\ leaf[4] # <<>> THEN "UnneededThreshList"
  ELSE ""

\* The first leaf, in loop order, for which the loop raises; 0 if none.
FirstFaultyLeaf(d) ==
  LET lvs == Leaves(d)
  IN IF \E i \in DOMAIN lvs : LeafFault(lvs[i]) # ""
     THEN CHOOSE i \in DOMAIN lvs :
            LeafFault(lvs[i]) # "" /\ \A j \in 1..(i-1) : LeafFault(lvs[j]) = ""
     ELSE 0

(***************************************************************************)
(* Removal from the option lists of values that are absent from the plot   *)
(* configuration file.                                                     *)
(***************************************************************************)
\* CleanedList that stops at the first value it removes.
CleanedList_FirstAbsentOnly(a, d, o) ==
  LET absent == {i \in DOMAIN a[o] : a[o][i] \notin ValuesIn(d, AxisOf(o))}
  IN IF absent = {} THEN a[o]
     ELSE LET k == CHOOSE i \in absent : \A j \in absent : i <= j
          IN SubSeq(a[o], 1, k - 1) \o SubSeq(a[o], k + 1, Len(a[o]))

\* The list of option o after the loop "for value in list.copy(): if the
\* value appears nowhere in the dictionary: list.remove(value)".
CleanedList(a, d, o) == SelectSeq(a[o], LAMBDA v : v \in ValuesIn(d, AxisOf(o)))

CleanedArgs(a, d) == [o \in OptionNames |-> CleanedList(a, d, o)]

\* The warnings these loops log: one per removed list element.
AbsentWarnings(a, d) ==
  Flatten([n \in DOMAIN OptionOrder |->
    LET o == OptionOrder[n]
        gone == SelectSeq(a[o], LAMBDA v : v \notin ValuesIn(d, AxisOf(o)))
    IN [i \in DOMAIN gone |-> <<"absent", o, gone[i]>>]])

\* The axis whose include-only list was emptied by the removal ("" if none).
EmptiedInclOnlyAxis(a_orig, a) ==
  FirstAxis(LAMBDA axis : a_orig[InclOpt(axis)] # <<>> /\ a[InclOpt(axis)] = <<>>)

(***************************************************************************)
(* Reduction of the plot configuration dictionary, axis by axis.           *)
(***************************************************************************)
\* The removals of the --incl_only_metrics and --excl_metrics options.
ReduceMetrics_ExclKeepsExcluded(d, a_orig, a) ==
  LET d1 == IF a_orig["incl_only_metrics"] # <<>> /\ a["incl_only_metrics"] # <<>>
            THEN PopEach(d, Range(valid_vx_metrics) \ Range(a["incl_only_metrics"]))
            ELSE d
  IN IF a_orig["excl_metrics"] # <<>> /\ a["excl_metrics"] # <<>>
     THEN PopEach(d1, Range(valid_vx_metrics) \ Range(a["excl_metrics"]))
     ELSE d1

ReduceMetrics(d, a_orig, a) ==
  LET d1 == IF a_orig["incl_only_metrics"] # <<>> /\ a["incl_only_metrics"] # <<>>
            THEN PopEach(d, Range(valid_vx_metrics) \ Range(a["incl_only_metrics"]))
            ELSE d
  IN IF a_orig["excl_metrics"] # <<>> /\ a["excl_metrics"] # <<>>
     THEN PopEach(d1, Range(a["excl_metrics"]))
     ELSE d1

\* Removal of the metric keys whose value has become empty.
PruneMetrics(d) == SelectSeq(d, LAMBDA e : e[2] # <<>>)

\* ReduceFields with the excluded fields removed from the first metric only.
ReduceFields_FirstMetricOnly(d, a_orig, a) ==
  LET d1 == IF a_orig["incl_only_fields"] # <<>> /\ a["incl_only_fields"] # <<>>
            THEN MapVals(d, LAMBDA metric, fmap :
                   PopEach(fmap, Range(valid_fcst_fields) \ Range(a["incl_only_fields"])))
            ELSE d
      d2 == IF a_orig["excl_fields"] # <<>> /\ a["excl_fields"] # <<>>
            THEN MapVals(d1, LAMBDA metric, fmap :
                   IF metric = d1[1][1] THEN PopEach(fmap, Range(a["excl_fields"])) ELSE fmap)
            ELSE d1
  IN PruneMetrics(d2)

\* The removals of the --incl_only_fields and --excl_fields options,
\* followed by the removal of empty metrics.
ReduceFields(d, a_orig, a) ==
  LET d1 == IF a_orig["incl_only_fields"] # <<>> /\ a["incl_only_fields"] # <<>>
            THEN MapVals(d, LAMBDA metric, fmap :
                   PopEach(fmap, Range(valid_fcst_fields) \ Range(a["incl_only_fields"])))
            ELSE d
      d2 == IF a_orig["excl_fields"] # <<>> /\ a["excl_fields"] # <<>>
            THEN MapVals(d1, LAMBDA metric, fmap : PopEach(fmap, Range(a["excl_fields"])))
            ELSE d1
  IN PruneMetrics(d2)

\* Removal of the field keys whose value has become empty, then of the
\* metric keys whose value has become empty.
PruneFields_KeepMetrics(d) ==
  MapVals(d, LAMBDA metric, fmap : SelectSeq(fmap, LAMBDA e : e[2] # <<>>))

PruneFields(d) ==
  PruneMetrics(MapVals(d, LAMBDA metric, fmap : SelectSeq(fmap, LAMBDA e : e[2] # <<>>)))

\* The removals of the --incl_only_levels and --excl_levels options,
\* followed by the removal of empty fields and metrics.
ReduceLevels(d, a_orig, a) ==
  LET d1 == IF a_orig["incl_only_levels"] # <<>> /\ a["incl_only_levels"] # <<>>
            THEN MapVals(d, LAMBDA metric, fmap :
                   MapVals(fmap, LAMBDA field, lmap :
                     PopEach(lmap, Range(valid_fcst_levels) \ Range(a["incl_only_levels"]))))
            ELSE d
      d2 == IF a_orig["excl_levels"] # <<>> /\ a["excl_levels"] # <<>>
            THEN MapVals(d1, LAMBDA metric, fmap :
                   MapVals(fmap, LAMBDA field, lmap : PopEach(lmap, Range(a["excl_levels"]))))
            ELSE d1
  IN PruneFields(d2)

\* The lists list(set(threshes_list).intersection(...)) and
\* list(set(threshes_list).difference(...)) can evaluate to: the elements
\* of the resulting set, in any order (the order in which a set of strings
\* is iterated is not defined and differs between runs).
FilteredThreshLists(threshes_list, a_orig, a) ==
  LET afterIncl ==
        IF a_orig["incl_only_threshes"] # <<>> /\ a["incl_only_threshes"] # <<>>
        THEN ListingsOf(Range(threshes_list) \cap Range(a["incl_only_threshes"]))
        ELSE {threshes_list}
  IN IF a_orig["excl_threshes"] # <<>> /\ a["excl_threshes"] # <<>>
     THEN UNION {ListingsOf(Range(l1) \ Range(a["excl_threshes"])) : l1 \in afterIncl}
     ELSE afterIncl

\* The dictionaries the threshold filters can leave, before pruning.
FilterThreshes(d, a_orig, a) ==
  LET LmapOutcomes(lmap) ==
        {[k \in DOMAIN lmap |-> <<lmap[k][1], c[k]>>] :
           c \in SeqProduct([k \in DOMAIN lmap |-> FilteredThreshLists(lmap[k][2], a_orig, a)])}
      FmapOutcomes(fmap) ==
        {[j \in DOMAIN fmap |-> <<fmap[j][1], c[j]>>] :
           c \in SeqProduct([j \in DOMAIN fmap |-> LmapOutcomes(fmap[j][2])])}
  IN {[i \in DOMAIN d |-> <<d[i][1], c[i]>>] :
        c \in SeqProduct([i \in DOMAIN d |-> FmapOutcomes(d[i][2])])}

\* PruneThreshes that leaves the levels with an emptied list in place.
PruneThreshes_KeepLevels(d) == PruneFields(d)

\* Removal of the level keys of metrics that need a threshold whose list
\* has become empty, then of empty fields, then of empty metrics.
PruneThreshes(d) ==
  PruneFields(MapVals(d, LAMBDA metric, fmap :
    MapVals(fmap, LAMBDA field, lmap :
      SelectSeq(lmap, LAMBDA e : ~(vx_metric_needs_thresh[metric] /\ e[2] = <<>>)))))

\* The dictionaries the threshold step can leave.
ReduceThreshes(d, a_orig, a) == {PruneThreshes(d1) : d1 \in FilterThreshes(d, a_orig, a)}

(***************************************************************************)
(* Warnings about include-only values absent from the reduced dictionary.  *)
(***************************************************************************)
DeadFilterWarnings(d, a) ==
  Flatten([n \in DOMAIN Axes |->
    LET o == InclOpt(Axes[n])
        dead == SelectSeq(a[o], LAMBDA v : v \notin ValuesIn(d, Axes[n]))
    IN [i \in DOMAIN dead |-> <<"dead", o, dead[i]>>]])

(***************************************************************************)
(* The dispatch loop.                                                      *)
(***************************************************************************)
\* The iterations of "for thresh in threshes_list" for one leaf, each a
\* tuple <<metric, field, level, thresh, reset>>; reset tells that the
\* non-empty list of a metric that needs no threshold was replaced by [''].
IterationsOfLeaf(leaf) ==
  IF vx_metric_needs_thresh[leaf[1]]
  THEN [n \in DOMAIN leaf[4] |-> <<leaf[1], leaf[2], leaf[3], leaf[4][n], FALSE>>]
  ELSE << <<leaf[1], leaf[2], leaf[3], "", leaf[4] # <<>> >> >>

\* The iterations of the innermost loop for the whole dictionary, in order.
Iterations(d) ==
  LET lvs == Leaves(d) IN Flatten([i \in DOMAIN lvs |-> IterationsOfLeaf(lvs[i])])

\* The <<metric, field, level, thresh>> job of an iteration.
JobOf(it) == <<it[1], it[2], it[3], it[4]>>

JobSequence(d) == LET its == Iterations(d) IN [i \in DOMAIN its |-> JobOf(its[i])]

\* Levels that are valid for a field (valid_fcst_levels_by_fcst_field): the
\* vocabulary is taken to allow every level for every field.
valid_fcst_levels_by_fcst_field == [f \in Range(valid_fcst_fields) |-> Range(valid_fcst_levels)]

\* make_single_mv_vx_plot(args_list) does not return: parse_args() rejects
\* a metric, field or level outside its choices, generate_metviewer_xml()
\* a non-empty threshold that is not valid for the database or a level
\* that is not valid for the field.
MakeSingleRaises(job) ==
  \/ job[1] \notin Range(valid_vx_metrics)
  \/ job[2] \notin Range(valid_fcst_fields)
  \/ job[3] \notin Range(valid_fcst_levels)
  \/ (job[4] # "" /\ job[4] \notin Range(valid_threshes_for_db))
  \/ job[3] \notin valid_fcst_levels_by_fcst_field[job[2]]

(***************************************************************************)
(* State of a run.                                                         *)
(***************************************************************************)
VARIABLES
  pc,                       \* the position of the run in main() and make_multi_mv_vx_plots()
  cla,                      \* the namespace of one call of make_single_mv_vx_plot()
  args,                     \* the option lists of the namespace args
  args_orig,                \* copy.deepcopy(args)
  preexisting_dir_method,   \* args.preexisting_dir_method
  plot_config_file,         \* metrics_fields_levels_threshes in the file at args.plot_config_fp
  config_loaded,            \* the plot configuration file has been read
  metrics_fields_levels_threshes_dict,
  output_dir_exists,        \* args.output_dir exists on disk
  renamed_dir_exists,       \* a renamed copy <output_dir>.old_<date> exists on disk
  err,                      \* the exception that ended the run, "" if none
  err_axis,                 \* the axis or option the error message is about
  err_vals,                 \* the offending values the error message lists
  err_permitted,            \* the permitted values the error message lists
  warnings,                 \* the warnings logged so far
  dispatched,               \* the jobs make_single_mv_vx_plot() was called for
  num_mv_calls,
  num_images_generated,
  missing_image_fns,
  ordered_plots             \* <<index, job>> of the images copied to ordered_plots_dir

vars == <<pc, cla, args, args_orig, preexisting_dir_method, plot_config_file, config_loaded,
          metrics_fields_levels_threshes_dict, output_dir_exists, renamed_dir_exists,
          err, err_axis, err_vals, err_permitted, warnings, dispatched, num_mv_calls,
          num_images_generated, missing_image_fns, ordered_plots>>

inputs == <<preexisting_dir_method, plot_config_file, cla>>

\* The namespace before make_single_mv_vx_plot() has parsed its arguments.
NoCla == [vx_metric |-> "", fcst_field |-> "", level_or_accum |-> "", threshold |-> ""]
disk == <<output_dir_exists, renamed_dir_exists>>
counters == <<dispatched, num_mv_calls, num_images_generated, missing_image_fns, ordered_plots>>
errs == <<err, err_axis, err_vals, err_permitted>>

\* args.create_ordered_plots: the runs modelled pass --create_ordered_plots.
create_ordered_plots == TRUE

\* The state when main() has parsed the command line.
Init ==
  /\ pc = "main"
  /\ cla = NoCla
  /\ \E cl \in CommandLines : args = ParsedArgs(cl)
  /\ args_orig = NoArgs
  /\ preexisting_dir_method \in {"rename", "delete", "quit"}
  /\ plot_config_file \in PlotConfigs
  /\ config_loaded = FALSE
  /\ metrics_fields_levels_threshes_dict = <<>>
  /\ output_dir_exists \in BOOLEAN
  /\ renamed_dir_exists = FALSE
  /\ err = "" /\ err_axis = "" /\ err_vals = {} /\ err_permitted = {}
  /\ warnings = <<>>
  /\ dispatched = <<>>
  /\ num_mv_calls = 0
  /\ num_images_generated = 0
  /\ missing_image_fns = <<>>
  /\ ordered_plots = {}

\* The run ends with an exception.
RaiseWith(e, axis, vals, permitted) ==
  /\ pc' = "fatal"
  /\ err' = e
  /\ err_axis' = axis
  /\ err_vals' = vals
  /\ err_permitted' = permitted

\* An exception whose message lists no permitted values.
Raise(e, axis, vals) == RaiseWith(e, axis, vals, {})

(***************************************************************************)
(* main(), after parse_args(): the four mutual-exclusivity checks, then    *)
(* the call of make_multi_mv_vx_plots().                                   *)
(***************************************************************************)
CheckMutuallyExclusive ==
  /\ pc = "main"
  /\ IF MutexErrorAxis(args) # ""
     THEN Raise("BothInclOnlyAndExcl", MutexErrorAxis(args),
                Range(args[InclOpt(MutexErrorAxis(args))]) \cup Range(args[ExclOpt(MutexErrorAxis(args))]))
     ELSE pc' = "read_config" /\ UNCHANGED errs
  /\ UNCHANGED <<args, args_orig, inputs, config_loaded, metrics_fields_levels_threshes_dict,
                 disk, warnings, counters>>

(***************************************************************************)
(* make_multi_mv_vx_plots(): reading of the plot configuration file.       *)
(***************************************************************************)
\* ReadPlotConfig followed at once by the checks of the options and of the
\* file, the output directory being left as it is.
ReadPlotConfig_ThenValidation ==
  /\ pc = "read_config"
  /\ config_loaded' = TRUE
  /\ metrics_fields_levels_threshes_dict' = plot_config_file
  /\ pc' = "check_threshes_in_db"
  /\ UNCHANGED <<args, args_orig, inputs, disk, errs, warnings, counters>>

ReadPlotConfig ==
  /\ pc = "read_config"
  /\ config_loaded' = TRUE
  /\ metrics_fields_levels_threshes_dict' = plot_config_file
  /\ pc' = "check_preexisting_dir"
  /\ UNCHANGED <<args, args_orig, inputs, disk, errs, warnings, counters>>

\* check_for_preexisting_dir_file() that looks at preexist_method only
\* under "if os.path.exists(dir_or_file)".
CheckForPreexistingDir_MethodCheckedIfExists ==
  /\ pc = "check_preexisting_dir"
  /\ IF output_dir_exists
     THEN CASE preexisting_dir_method = "rename" ->
                 /\ output_dir_exists' = FALSE
                 /\ renamed_dir_exists' = TRUE
                 /\ pc' = "make_ordered_plots_dir"
                 /\ UNCHANGED errs
            [] preexisting_dir_method = "delete" ->
                 /\ output_dir_exists' = FALSE
                 /\ pc' = "make_ordered_plots_dir"
                 /\ UNCHANGED <<renamed_dir_exists, errs>>
            [] preexisting_dir_method = "quit" ->
                 /\ Raise("FileExistsError", "output_dir", {})
                 /\ UNCHANGED disk
            [] OTHER ->
                 /\ RaiseWith("ValueError", "preexisting_dir_method", {preexisting_dir_method},
                              {"rename", "delete", "quit"})
                 /\ UNCHANGED disk
     ELSE pc' = "make_ordered_plots_dir" /\ UNCHANGED <<disk, errs>>
  /\ UNCHANGED <<args, args_orig, inputs, config_loaded, metrics_fields_levels_threshes_dict,
                 warnings, counters>>

\* check_for_preexisting_dir_file(args.output_dir, args.preexisting_dir_method)
CheckForPreexistingDir ==
  /\ pc = "check_preexisting_dir"
  /\ IF preexisting_dir_method \notin {"rename", "delete", "quit"}
     THEN /\ RaiseWith("ValueError", "preexisting_dir_method", {preexisting_dir_method},
                        {"rename", "delete", "quit"})
          /\ UNCHANGED disk
     ELSE IF output_dir_exists
     THEN CASE preexisting_dir_method = "rename" ->
                 /\ output_dir_exists' = FALSE
                 /\ renamed_dir_exists' = TRUE
                 /\ pc' = "make_ordered_plots_dir"
                 /\ UNCHANGED errs
            [] preexisting_dir_method = "delete" ->
                 /\ output_dir_exists' = FALSE
                 /\ pc' = "make_ordered_plots_dir"
                 /\ UNCHANGED <<renamed_dir_exists, errs>>
            [] OTHER ->
                 /\ Raise("FileExistsError", "output_dir", {})
                 /\ UNCHANGED disk
     ELSE pc' = "make_ordered_plots_dir" /\ UNCHANGED <<disk, errs>>
  /\ UNCHANGED <<args, args_orig, inputs, config_loaded, metrics_fields_levels_threshes_dict,
                 warnings, counters>>

\* Path(ordered_plots_dir).mkdir(parents=True, exist_ok=True)
MakeOrderedPlotsDir ==
  /\ pc = "make_ordered_plots_dir"
  /\ output_dir_exists' = (output_dir_exists \/ create_ordered_plots)
  /\ pc' = "check_threshes_in_db"
  /\ UNCHANGED <<args, args_orig, inputs, config_loaded, metrics_fields_levels_threshes_dict,
                 renamed_dir_exists, errs, warnings, counters>>

\* The thresholds passed to --incl_only_threshes and --excl_threshes must
\* be valid for the database.
CheckThreshesInDb ==
  /\ pc = "check_threshes_in_db"
  /\ IF ThreshErrorOption(args) # ""
     THEN RaiseWith("ThreshesNotInDb", ThreshErrorOption(args),
                    threshes_not_in_db(args[ThreshErrorOption(args)]),
                    Range(valid_threshes_for_db))
     ELSE pc' = "check_needs_thresh" /\ UNCHANGED errs
  /\ UNCHANGED <<args, args_orig, inputs, config_loaded, metrics_fields_levels_threshes_dict,
                 disk, warnings, counters>>

\* The threshold lists of the file must agree with vx_metric_needs_thresh.
CheckNeedsThresh ==
  /\ pc = "check_needs_thresh"
  /\ LET n == FirstFaultyLeaf(metrics_fields_levels_threshes_dict)
         leaf == Leaves(metrics_fields_levels_threshes_dict)[n]
     IN IF n # 0
        THEN Raise(LeafFault(leaf), "metric-field-level", {<<leaf[1], leaf[2], leaf[3]>>})
        ELSE pc' = "clean_args" /\ UNCHANGED errs
  /\ UNCHANGED <<args, args_orig, inputs, config_loaded, metrics_fields_levels_threshes_dict,
                 disk, warnings, counters>>

\* The object plot_config_dict read from the file: its entry
\* "metrics_fields_levels_threshes" and metrics_fields_levels_threshes_dict
\* are one and the same dictionary (no copy is made of it).
plot_config_dict ==
  [metrics_fields_levels_threshes |-> metrics_fields_levels_threshes_dict]

\* copy.deepcopy(args) where args_orig and args name the same object: the
\* later removals show in both.
DeepCopyOfArgs_SameObject(a, later) == later

\* copy.deepcopy(args): the option lists as they are at the call, whatever
\* is later removed from args.
DeepCopyOfArgs(a, later) == a

\* args_orig = copy.deepcopy(args), then the removal from the option lists
\* of the values that are absent from the plot configuration file.
RemoveAbsentValues ==
  /\ pc = "clean_args"
  /\ args_orig' = DeepCopyOfArgs(args, CleanedArgs(args, metrics_fields_levels_threshes_dict))
  /\ args' = CleanedArgs(args, metrics_fields_levels_threshes_dict)
  /\ warnings' = warnings \o AbsentWarnings(args, metrics_fields_levels_threshes_dict)
  /\ pc' = "check_incl_only_left"
  /\ UNCHANGED <<inputs, config_loaded, metrics_fields_levels_threshes_dict, disk, errs, counters>>

\* An include-only list that the removal has emptied ends the run.
CheckInclOnlyLeft ==
  /\ pc = "check_incl_only_left"
  /\ IF EmptiedInclOnlyAxis(args_orig, args) # ""
     THEN Raise("InclOnlyAllRemoved", EmptiedInclOnlyAxis(args_orig, args),
                Range(args_orig[InclOpt(EmptiedInclOnlyAxis(args_orig, args))]))
     ELSE pc' = "reduce_metrics" /\ UNCHANGED errs
  /\ UNCHANGED <<args, args_orig, inputs, config_loaded, metrics_fields_levels_threshes_dict,
                 disk, warnings, counters>>

\* AfterReduction with the emptiness check made only after the last axis.
AfterReduction_CheckAtEnd(d, axis, next) ==
  /\ metrics_fields_levels_threshes_dict' = d
  /\ IF d = <<>> /\ axis = "thresh"
     THEN Raise("NoCombinationsRemain", axis, {})
     ELSE pc' = next /\ UNCHANGED errs
  /\ UNCHANGED <<args, args_orig, inputs, config_loaded, disk, warnings, counters>>

\* One reduction step leaves the dictionary d: the run stops if d is empty.
AfterReduction(d, axis, next) ==
  /\ metrics_fields_levels_threshes_dict' = d
  /\ IF d = <<>>
     THEN Raise("NoCombinationsRemain", axis, {})
     ELSE pc' = next /\ UNCHANGED errs
  /\ UNCHANGED <<args, args_orig, inputs, config_loaded, disk, warnings, counters>>

ReduceByMetrics ==
  /\ pc = "reduce_metrics"
  /\ AfterReduction(ReduceMetrics(metrics_fields_levels_threshes_dict, args_orig, args),
                    "metric", "reduce_fields")

ReduceByFields ==
  /\ pc = "reduce_fields"
  /\ AfterReduction(ReduceFields(metrics_fields_levels_threshes_dict, args_orig, args),
                    "field", "reduce_levels")

ReduceByLevels ==
  /\ pc = "reduce_levels"
  /\ AfterReduction(ReduceLevels(metrics_fields_levels_threshes_dict, args_orig, args),
                    "level", "reduce_threshes")

ReduceByThreshes ==
  /\ pc = "reduce_threshes"
  /\ \E d \in ReduceThreshes(metrics_fields_levels_threshes_dict, args_orig, args) :
       AfterReduction(d, "thresh", "warn_dead_filters")

\* WarnDeadFilters that goes through the lists as they were passed.
WarnDeadFilters_ListsAsPassed ==
  /\ pc = "warn_dead_filters"
  /\ warnings' = warnings \o DeadFilterWarnings(metrics_fields_levels_threshes_dict, args_orig)
  /\ pc' = "dispatch"
  /\ UNCHANGED <<args, args_orig, inputs, config_loaded, metrics_fields_levels_threshes_dict,
                 disk, errs, counters>>

\* Warnings for the include-only values that are not in the reduced dictionary.
WarnDeadFilters ==
  /\ pc = "warn_dead_filters"
  /\ warnings' = warnings \o DeadFilterWarnings(metrics_fields_levels_threshes_dict, args)
  /\ pc' = "dispatch"
  /\ UNCHANGED <<args, args_orig, inputs, config_loaded, metrics_fields_levels_threshes_dict,
                 disk, errs, counters>>

\* The prefix of the ordered copy numbered by the images generated so far.
OrderedIndex_ImagesCount(n_calls, n_images) == n_images

\* The number in the prefix p<NNN>_ of the ordered copy of an image:
\* '_'.join([f'p{num_mv_calls:03}', output_image_fn]).
OrderedIndex(n_calls, n_images) == n_calls

\* num_images_generated after the test os.path.isfile(output_image_fp).
CountImage_Always(image_exists, n) == n + 1

CountImage(image_exists, n) == IF image_exists THEN n + 1 ELSE n

\* Where the run continues after the test of the image: a missing image
\* is appended to missing_image_fns and the loop goes on.
PcAfterImageCheck_Break(image_exists) == IF image_exists THEN "dispatch" ELSE "done"

PcAfterImageCheck(image_exists) == "dispatch"

\* One iteration of the innermost loop "for thresh in threshes_list".
Dispatch ==
  /\ pc = "dispatch"
  /\ num_mv_calls < Len(Iterations(metrics_fields_levels_threshes_dict))
  /\ LET it == Iterations(metrics_fields_levels_threshes_dict)[num_mv_calls + 1]
         job == JobOf(it)
     IN /\ warnings' = IF it[5] THEN Append(warnings, <<"reset", "threshes_list", job>>)
                        ELSE warnings
        /\ num_mv_calls' = num_mv_calls + 1
        /\ dispatched' = Append(dispatched, job)
        /\ IF MakeSingleRaises(job)
           THEN /\ Raise("MakeSingleError", "job", {job})
                /\ UNCHANGED <<num_images_generated, missing_image_fns, ordered_plots,
                               output_dir_exists>>
           ELSE /\ \E image_exists \in BOOLEAN :
                     /\ ~image_exists => Len(missing_image_fns) < MaxMissing
                     /\ num_images_generated' = CountImage(image_exists, num_images_generated)
                     /\ missing_image_fns' = IF image_exists THEN missing_image_fns
                                             ELSE Append(missing_image_fns, job)
                     /\ ordered_plots' =
                          IF image_exists /\ create_ordered_plots
                          THEN ordered_plots \cup
                                 {<<OrderedIndex(num_mv_calls + 1, num_images_generated + 1), job>>}
                          ELSE ordered_plots
                     /\ pc' = PcAfterImageCheck(image_exists)
                /\ output_dir_exists' = TRUE
                /\ UNCHANGED errs
  /\ UNCHANGED <<args, args_orig, inputs, config_loaded, metrics_fields_levels_threshes_dict,
                 renamed_dir_exists>>

\* The loops are exhausted: the summary is logged and the function returns.
Summary ==
  /\ pc = "dispatch"
  /\ num_mv_calls = Len(Iterations(metrics_fields_levels_threshes_dict))
  /\ pc' = "done"
  /\ UNCHANGED <<args, args_orig, inputs, config_loaded, metrics_fields_levels_threshes_dict,
                 disk, errs, warnings, counters>>

Next ==
  \/ CheckMutuallyExclusive
  \/ ReadPlotConfig
  \/ CheckForPreexistingDir
  \/ MakeOrderedPlotsDir
  \/ CheckThreshesInDb
  \/ CheckNeedsThresh
  \/ RemoveAbsentValues
  \/ CheckInclOnlyLeft
  \/ ReduceByMetrics
  \/ ReduceByFields
  \/ ReduceByLevels
  \/ ReduceByThreshes
  \/ WarnDeadFilters
  \/ Dispatch
  \/ Summary

Spec == Init /\ [][Next]_vars

(***************************************************************************)
(* Properties.                                                             *)
(***************************************************************************)
\* The command line as parsed: args until it is copied to args_orig, the
\* copy afterwards.
PassedArgs == IF pc \in {"main", "read_config", "check_preexisting_dir",
                         "make_ordered_plots_dir", "check_threshes_in_db",
                         "check_needs_thresh", "clean_args"}
                 \/ (pc = "fatal" /\ err \in {"BothInclOnlyAndExcl", "ValueError", "FileExistsError",
                                              "ThreshesNotInDb", "KeyError", "EmptyThreshList",
                                              "UnneededThreshList"})
              THEN args ELSE args_orig

\* C1: if, for any of the four axes, both the include-only and the exclude
\* list are non-empty, the run ends with a fatal error before the plot
\* configuration is loaded or modified and before any job is dispatched.
C1_MutualExclusivity ==
  (\E axis \in Range(Axes) : BothSpecified(PassedArgs, axis)) =>
     /\ pc \in {"main", "fatal"}
     /\ pc = "fatal" => /\ err = "BothInclOnlyAndExcl"
                        /\ BothSpecified(PassedArgs, err_axis)
     /\ ~config_loaded
     /\ metrics_fields_levels_threshes_dict = <<>>
     /\ dispatched = <<>> /\ num_mv_calls = 0

C1_Witness ==
  /\ pc = "fatal" /\ err = "BothInclOnlyAndExcl" /\ err_axis = "thresh"
  /\ args["incl_only_threshes"] # <<>> /\ args["excl_threshes"] # <<>>
  /\ ~config_loaded

ReducePcs == {"reduce_metrics", "reduce_fields", "reduce_levels", "reduce_threshes"}

AxisOfPc(p) ==
  CASE p = "reduce_metrics" -> "metric"
    [] p = "reduce_fields" -> "field"
    [] p = "reduce_levels" -> "level"
    [] OTHER -> "thresh"

\* What C2 requires of one step of the run.
C2_Step ==
  pc \in ReducePcs =>
    /\ (metrics_fields_levels_threshes_dict' = <<>>)
         <=> (pc' = "fatal" /\ err' = "NoCombinationsRemain" /\ err_axis' = AxisOfPc(pc))
    /\ pc' = "fatal" => (dispatched' = <<>> /\ num_mv_calls' = 0)

\* C2: the step of axis A (filters plus pruning) leaves the dictionary
\* empty exactly when the run ends, in that very step, with the
\* NoCombinationsRemain error naming axis A; the filters of the next axis
\* are not applied and no job is dispatched.
C2_EmptyAfterAxisIsFatal == [][C2_Step]_vars

\* {bias: {tmp: {2m: []}}} with --excl_metrics bias fails right after the
\* metric axis.
C2_Witness ==
  /\ pc = "fatal" /\ err = "NoCombinationsRemain" /\ err_axis = "metric"
  /\ plot_config_file = TreeBias
  /\ args_orig["excl_metrics"] = <<"bias">>
  /\ metrics_fields_levels_threshes_dict = <<>>

(***************************************************************************)
(* What the options ask for, read off the plot configuration file.         *)
(***************************************************************************)
\* Value v of an axis is in the include-only list if one is given, and is
\* not in the exclude list.
Passes(a, axis, v) ==
  /\ a[InclOpt(axis)] # <<>> => v \in Range(a[InclOpt(axis)])
  /\ v \notin Range(a[ExclOpt(axis)])

\* The metric-field-level-threshold combinations of the file that pass the
\* filters of all four axes (threshold '' for a metric that needs none).
RefJobs(tree, a) ==
  UNION {IF vx_metric_needs_thresh[lf[1]]
         THEN {<<lf[1], lf[2], lf[3], t>> : t \in {u \in Range(lf[4]) : Passes(a, "thresh", u)}}
         ELSE {<<lf[1], lf[2], lf[3], "">>} :
         lf \in {x \in Range(Leaves(tree)) :
                   Passes(a, "metric", x[1]) /\ Passes(a, "field", x[2]) /\ Passes(a, "level", x[3])}}

\* The jobs of metrics that need no threshold.
NoThreshJobs(jobs) == SelectSeq(jobs, LAMBDA j : ~vx_metric_needs_thresh[j[1]])

\* The jobs up to and including the first one make_single_mv_vx_plot()
\* raises for.
UpToFirstRaise(jobs) ==
  LET bad == {i \in DOMAIN jobs : MakeSingleRaises(jobs[i])}
  IN IF bad = {} THEN jobs
     ELSE SubSeq(jobs, 1, CHOOSE i \in bad : \A j \in bad : i <= j)

\* The jobs dispatched by a run on the same file with the options a0, none
\* of which is a threshold option, once main() and the checks of the output
\* directory have passed.
DispatchedWithout(tree, a0) ==
  LET a1 == CleanedArgs(a0, tree)
      d1 == ReduceMetrics(tree, a0, a1)
      d2 == ReduceFields(d1, a0, a1)
      d3 == ReduceLevels(d2, a0, a1)
      d4 == PruneThreshes(d3)
  IN IF FirstFaultyLeaf(tree) # 0 \/ EmptiedInclOnlyAxis(a0, a1) # "" THEN <<>>
     ELSE IF d1 = <<>> \/ d2 = <<>> \/ d3 = <<>> \/ d4 = <<>> THEN <<>>
     ELSE UpToFirstRaise(JobSequence(d4))

NoThreshOptions(a) == [a EXCEPT !["incl_only_threshes"] = <<>>, !["excl_threshes"] = <<>>]

EarlyPcs == {"main", "read_config", "check_preexisting_dir", "make_ordered_plots_dir",
             "check_threshes_in_db", "check_needs_thresh"}

RECURSIVE IsSubseq(_, _)
\* s can be obtained from t by deleting elements.
IsSubseq(s, t) ==
  IF s = <<>> THEN TRUE
  ELSE IF t = <<>> THEN FALSE
  ELSE IF Head(s) = Head(t) THEN IsSubseq(Tail(s), Tail(t))
  ELSE IsSubseq(s, Tail(t))

\* C3: an include-only value that matches nothing is advisory only, on every
\* axis: the run is never ended because the values of an include-only list
\* are absent while combinations that pass all filters remain, and in a run
\* that reaches the dispatch loop every include-only value absent from the
\* reduced dictionary has been named in a warning.
C3_DeadFilterIsAdvisory ==
  /\ (pc = "fatal" /\ err = "InclOnlyAllRemoved") => RefJobs(plot_config_file, args_orig) = {}
  /\ pc \in {"dispatch", "done"} =>
       \A axis \in Range(Axes) : \A v \in Range(args_orig[InclOpt(axis)]) :
          v \notin ValuesIn(metrics_fields_levels_threshes_dict, axis) =>
             \E i \in DOMAIN warnings : warnings[i][2] = InclOpt(axis) /\ warnings[i][3] = v

\* C4: the dispatched jobs are the nested traversal of the reduced
\* dictionary, they follow the order of the plot configuration file at
\* every level including the thresholds, and a leaf of a metric that needs
\* no threshold gets exactly one job, with threshold ''.
C4_OrderOfJobs ==
  pc = "done" =>
    /\ dispatched = JobSequence(metrics_fields_levels_threshes_dict)
    /\ IsSubseq(dispatched, JobSequence(plot_config_file))
    /\ \A lf \in Range(Leaves(metrics_fields_levels_threshes_dict)) :
         ~vx_metric_needs_thresh[lf[1]] =>
            Cardinality({i \in DOMAIN dispatched :
                           dispatched[i][1] = lf[1] /\ dispatched[i][2] = lf[2]
                           /\ dispatched[i][3] = lf[3]}) = 1
            /\ <<lf[1], lf[2], lf[3], "">> \in Range(dispatched)

\* The threshold tokens of the command line that are not valid for the database.
IllegalTokens(a) ==
  {t \in Range(a["incl_only_threshes"]) \cup Range(a["excl_threshes"]) :
     t \notin Range(valid_threshes_for_db)}

\* C5: a threshold token of the include-only or exclude option that is not
\* valid for the database ends the run before any reduction or dispatch,
\* and the error lists all such tokens together with the valid ones.
C5_ThreshLegality ==
  /\ IllegalTokens(PassedArgs) # {} =>
       /\ pc \in (EarlyPcs \ {"check_needs_thresh"}) \cup {"fatal"}
       /\ pc = "fatal" => err \in {"BothInclOnlyAndExcl", "ValueError", "FileExistsError",
                                   "ThreshesNotInDb"}
  /\ (pc = "fatal" /\ err = "ThreshesNotInDb") =>
       /\ err_vals = IllegalTokens(args) /\ err_vals # {}
       /\ err_permitted = Range(valid_threshes_for_db)
       /\ metrics_fields_levels_threshes_dict = plot_config_file
       /\ args_orig = NoArgs
       /\ dispatched = <<>> /\ num_mv_calls = 0

C5_Witness ==
  /\ pc = "fatal" /\ err = "ThreshesNotInDb"
  /\ err_vals = {"ge9", "lt0"}
  /\ config_loaded

\* A leaf of the file whose threshold list disagrees with vx_metric_needs_thresh.
HasMismatch(tree) ==
  \E lf \in Range(Leaves(tree)) :
     /\ lf[1] \in DOMAIN vx_metric_needs_thresh
     /\ vx_metric_needs_thresh[lf[1]] # (lf[4] # <<>>)

\* C6: a leaf of the loaded dictionary whose threshold list disagrees with
\* vx_metric_needs_thresh ends the run before any option is applied: the
\* option lists and the dictionary are as read, and nothing is dispatched.
C6_NeedsThreshChecked ==
  HasMismatch(plot_config_file) =>
    /\ pc \in EarlyPcs \cup {"fatal"}
    /\ pc = "fatal" => err \in {"BothInclOnlyAndExcl", "ValueError", "FileExistsError",
                                "ThreshesNotInDb", "KeyError", "EmptyThreshList",
                                "UnneededThreshList"}
    /\ metrics_fields_levels_threshes_dict \in {<<>>, plot_config_file}
    /\ args_orig = NoArgs /\ warnings = <<>>
    /\ dispatched = <<>> /\ num_mv_calls = 0

C6_Witness ==
  /\ pc = "fatal" /\ err = "UnneededThreshList"
  /\ plot_config_file = TreeUnneededThresh
  /\ err_vals = {<<"bias", "tmp", "2m">>}

\* --excl_fields is the only option given.
OnlyExclFields(a) ==
  a["excl_fields"] # <<>> /\ \A o \in OptionNames \ {"excl_fields"} : a[o] = <<>>

\* C7: with only --excl_fields given, the jobs dispatched by a run that
\* completes the loop are the jobs of the unfiltered file whose field is not
\* excluded, in their order, and num_mv_calls is their number.
C7_ExcludeFields ==
  (pc = "done" /\ OnlyExclFields(args_orig)) =>
     /\ dispatched = SelectSeq(JobSequence(plot_config_file),
                               LAMBDA j : j[2] \notin Range(args_orig["excl_fields"]))
     /\ num_mv_calls = Len(dispatched)

\* 12 jobs over apcp and tmp, --excl_fields tmp: the 6 jobs of apcp.
C7_Witness ==
  /\ pc = "done" /\ plot_config_file = TreeTwelve
  /\ args_orig["excl_fields"] = <<"tmp">> /\ OnlyExclFields(args_orig)
  /\ num_mv_calls = 6 /\ Len(JobSequence(plot_config_file)) = 12

\* Only threshold options are given.
OnlyThreshOptions(a) ==
  /\ a["incl_only_threshes"] # <<>> \/ a["excl_threshes"] # <<>>
  /\ \A o \in OptionNames \ {"incl_only_threshes", "excl_threshes"} : a[o] = <<>>

\* The threshold step has been made.
ThreshAxisDone ==
  \/ pc \in {"warn_dead_filters", "dispatch", "done"}
  \/ pc = "fatal" /\ err = "MakeSingleError"
  \/ pc = "fatal" /\ err = "NoCombinationsRemain" /\ err_axis = "thresh"

\* The thresholds the options leave of the list L.
KeptThreshes(a, L) ==
  IF a["incl_only_threshes"] # <<>> THEN Range(L) \cap Range(a["incl_only_threshes"])
  ELSE Range(L) \ Range(a["excl_threshes"])

\* The set-semantics part of C8: after the threshold step a leaf of the file
\* holds exactly the kept thresholds, and is gone iff its metric needs a
\* threshold and none is kept.
C8_SetSemantics ==
  (OnlyThreshOptions(args_orig) /\ ThreshAxisDone) =>
     \A lf \in Range(Leaves(plot_config_file)) :
        LET kept == KeptThreshes(args_orig, lf[4])
            now == {x \in Range(Leaves(metrics_fields_levels_threshes_dict)) :
                      x[1] = lf[1] /\ x[2] = lf[2] /\ x[3] = lf[3]}
        IN IF vx_metric_needs_thresh[lf[1]] /\ kept = {}
           THEN now = {}
           ELSE \E x \in now : Range(x[4]) = kept

\* C8: threshold filtering is a set operation on each leaf (difference with
\* the exclude list, intersection with the include-only list), and an
\* include-only list that names only thresholds that are not present makes
\* the threshold step empty and prune the leaves, not end the run otherwise.
C8_ThreshSetFilter ==
  /\ C8_SetSemantics
  /\ (/\ OnlyThreshOptions(args_orig)
      /\ \E lf \in Range(Leaves(plot_config_file)) :
            lf[1] \in DOMAIN vx_metric_needs_thresh /\ vx_metric_needs_thresh[lf[1]]) =>
        ~(pc = "fatal" /\ err = "InclOnlyAllRemoved")

ValidatedPcs == {"clean_args", "check_incl_only_left", "reduce_metrics", "reduce_fields",
                 "reduce_levels", "reduce_threshes", "warn_dead_filters", "dispatch", "done"}

\* C9: once the file has passed validation, in every state of the run
\* (after each reduction step and during dispatch) a leaf of the dictionary
\* has a non-empty threshold list iff its metric needs a threshold, and the
\* dispatch loop never resets a list.
C9_ThreshInvariant ==
  (pc \in ValidatedPcs
   \/ (pc = "fatal" /\ err \in {"InclOnlyAllRemoved", "NoCombinationsRemain", "MakeSingleError"})) =>
     /\ \A lf \in Range(Leaves(metrics_fields_levels_threshes_dict)) :
          /\ lf[1] \in DOMAIN vx_metric_needs_thresh
          /\ vx_metric_needs_thresh[lf[1]] <=> (lf[4] # <<>>)
     /\ \A i \in DOMAIN warnings : warnings[i][1] # "reset"

\* The threshold step has removed a leaf and another leaf is being dispatched.
C9_Witness ==
  /\ pc = "dispatch" /\ num_mv_calls > 0
  /\ args_orig["incl_only_threshes"] # <<>>
  /\ Len(Leaves(metrics_fields_levels_threshes_dict)) < Len(Leaves(plot_config_file))
  /\ \E lf \in Range(Leaves(metrics_fields_levels_threshes_dict)) : lf[4] = <<>>

\* C10: the threshold options have no effect on metrics that need no
\* threshold: a run with threshold options whose tokens are valid for the
\* database dispatches, for those metrics, the jobs that the run without
\* the threshold options dispatches.
C10_NoEffectOnNoThreshMetrics ==
  (/\ pc \in {"done", "fatal"}
   /\ err \notin {"BothInclOnlyAndExcl", "ValueError", "FileExistsError", "ThreshesNotInDb"}
   /\ PassedArgs["incl_only_threshes"] # <<>> \/ PassedArgs["excl_threshes"] # <<>>) =>
     NoThreshJobs(dispatched)
       = NoThreshJobs(DispatchedWithout(plot_config_file, NoThreshOptions(PassedArgs)))

\* The errors raised by the checks and by the reduction.
ValidationErrors == {"BothInclOnlyAndExcl", "ValueError", "FileExistsError", "ThreshesNotInDb",
                     "KeyError", "EmptyThreshList", "UnneededThreshList",
                     "InclOnlyAllRemoved", "NoCombinationsRemain"}

\* C11: a run that ends in a validation or reduction error (mutual
\* exclusivity, illegal filter threshold, needs-threshold mismatch, tree
\* emptied by an axis) has dispatched no job, and a job is only ever
\* dispatched in a run whose options and file give none of these errors.
C11_NoDispatchBeforeError ==
  /\ (pc = "fatal" /\ err \in ValidationErrors) =>
        /\ num_mv_calls = 0 /\ dispatched = <<>>
        /\ num_images_generated = 0 /\ missing_image_fns = <<>> /\ ordered_plots = {}
  /\ num_mv_calls > 0 =>
        /\ err \notin ValidationErrors
        /\ \A axis \in Range(Axes) : ~BothSpecified(args_orig, axis)
        /\ IllegalTokens(args_orig) = {}
        /\ ~HasMismatch(plot_config_file)
        /\ metrics_fields_levels_threshes_dict # <<>>

\* The threshold step has emptied the tree of a file with jobs.
C11_Witness ==
  /\ pc = "fatal" /\ err = "NoCombinationsRemain" /\ err_axis = "thresh"
  /\ JobSequence(plot_config_file) # <<>>
  /\ num_mv_calls = 0 /\ dispatched = <<>>

\* The thresholds of the file that are not valid for the database.
FileThreshesNotInDb(tree) ==
  {t \in ThreshesIn(tree) : t \notin Range(valid_threshes_for_db)}

\* C12: a threshold that is not valid for the database is a fatal error
\* found before or during the reduction, also when the plot configuration
\* file lists it: no run gets past the reduction or dispatches a job with
\* such a threshold in the file, and every non-empty threshold of a
\* dispatched job is valid for the database.
C12_ThreshesOfFileLegal ==
  /\ FileThreshesNotInDb(plot_config_file) # {} =>
        /\ pc \notin {"warn_dead_filters", "dispatch", "done"}
        /\ num_mv_calls = 0 /\ dispatched = <<>>
  /\ \A i \in DOMAIN dispatched :
        dispatched[i][4] # "" => dispatched[i][4] \in Range(valid_threshes_for_db)

\* A run that has returned has attempted every job of the reduced tree once.
C13_Done ==
  pc = "done" =>
     /\ dispatched = JobSequence(metrics_fields_levels_threshes_dict)
     /\ num_mv_calls = Len(dispatched)
     /\ Range(missing_image_fns) \subseteq Range(dispatched)

\* The iteration that finds its image missing records it and stays in the loop.
C13_Step ==
  (pc = "dispatch" /\ missing_image_fns' # missing_image_fns) =>
     /\ missing_image_fns' = Append(missing_image_fns, dispatched'[Len(dispatched')])
     /\ pc' = "dispatch" /\ err' = ""
     /\ num_mv_calls' = num_mv_calls + 1

\* C13: a job whose image is missing after the call does not stop the loop:
\* its image is appended to the missing list, the loop goes on, and the run
\* returns only after every job of the reduced tree was attempted once.
C13_MissingImageDoesNotStop == []C13_Done /\ [][C13_Step]_vars

\* A run returned after a missing image that was not the last job's.
C13_Witness ==
  /\ pc = "done" /\ Len(missing_image_fns) = 1 /\ Len(dispatched) >= 3
  /\ missing_image_fns[1] = dispatched[1]
  /\ num_mv_calls = Len(JobSequence(metrics_fields_levels_threshes_dict))

\* One step of the counters.
C14_Step ==
  /\ num_mv_calls' \in {num_mv_calls, num_mv_calls + 1}
  /\ num_images_generated' \in {num_images_generated, num_images_generated + 1}
  /\ Len(missing_image_fns') \in {Len(missing_image_fns), Len(missing_image_fns) + 1}
  /\ SubSeq(missing_image_fns', 1, Len(missing_image_fns)) = missing_image_fns
  /\ (num_images_generated' # num_images_generated \/ missing_image_fns' # missing_image_fns) =>
        /\ num_mv_calls' = num_mv_calls + 1
        /\ (num_images_generated' = num_images_generated) # (missing_image_fns' = missing_image_fns)
  /\ (num_mv_calls' = num_mv_calls + 1 /\ pc' # "fatal") =>
        num_mv_calls' = num_images_generated' + Len(missing_image_fns')

\* After each completed iteration the attempted jobs are the images
\* produced plus the images missing.
C14_Balance ==
  pc \in {"dispatch", "done"} => num_mv_calls = num_images_generated + Len(missing_image_fns)

\* C14: the counters only advance: num_mv_calls by one per job, the number
\* of images and the missing list never shrink, exactly one of the two
\* grows per completed job, and after each completed job
\* num_mv_calls = num_images_generated + len(missing_image_fns).
C14_CountersAdvance == []C14_Balance /\ [][C14_Step]_vars

C14_Witness ==
  /\ pc = "done" /\ num_images_generated >= 1 /\ Len(missing_image_fns) = 1
  /\ num_mv_calls = num_images_generated + 1

\* The step of the axis has been made and has left a tree.
AxisDone(axis) ==
  LET after == [a \in Range(Axes) |->
                  CASE a = "metric" -> {"reduce_fields", "reduce_levels", "reduce_threshes"}
                    [] a = "field"  -> {"reduce_levels", "reduce_threshes"}
                    [] a = "level"  -> {"reduce_threshes"}
                    [] OTHER        -> {}]
  IN \/ pc \in after[axis] \cup {"warn_dead_filters", "dispatch", "done"}
     \/ pc = "fatal" /\ err = "MakeSingleError"

\* C15: after the include-only pass of the metric, field or level axis
\* with a non-empty include-only list, every key of the tree at that axis
\* is in the list, whatever tree was loaded.
C15_InclOnlyKeepsOnlyListed ==
  \A axis \in {"metric", "field", "level"} :
     (AxisDone(axis) /\ args_orig[InclOpt(axis)] # <<>>) =>
        ValuesIn(metrics_fields_levels_threshes_dict, axis)
          \subseteq Range(args_orig[InclOpt(axis)])

\* No include-only option is given.
ExclOnly(a) == \A axis \in Range(Axes) : a[InclOpt(axis)] = <<>>

\* The leaves of the file that the exclude lists leave: those whose metric,
\* field and level are not excluded and, for a metric that needs a
\* threshold, that keep a threshold.
ExclRefLeaves(tree, a) ==
  SelectSeq(Leaves(tree), LAMBDA lf :
    /\ lf[1] \notin Range(a["excl_metrics"])
    /\ lf[2] \notin Range(a["excl_fields"])
    /\ lf[3] \notin Range(a["excl_levels"])
    /\ vx_metric_needs_thresh[lf[1]] => Range(lf[4]) \ Range(a["excl_threshes"]) # {})

\* No metric without fields and no field without levels.
NoEmptyBranch(tree) ==
  \A i \in DOMAIN tree :
     /\ tree[i][2] # <<>>
     /\ \A j \in DOMAIN tree[i][2] : tree[i][2][j][2] # <<>>

\* The exclude lists have removed the leaves with an excluded key, kept
\* the others in their order, and taken the excluded thresholds out of
\* each list; an excluded value that is not in the file has been warned
\* about.
C16_ExcludeOnLeaves ==
  /\ (AxisDone("thresh") /\ ExclOnly(args_orig)) =>
        LET now == Leaves(metrics_fields_levels_threshes_dict)
            ref == ExclRefLeaves(plot_config_file, args_orig)
        IN /\ Len(now) = Len(ref)
           /\ \A i \in DOMAIN now :
                 /\ <<now[i][1], now[i][2], now[i][3]>> = <<ref[i][1], ref[i][2], ref[i][3]>>
                 /\ Range(now[i][4]) = Range(ref[i][4]) \ Range(args_orig["excl_threshes"])
                 /\ Range(ref[i][4]) \cap Range(args_orig["excl_threshes"]) = {}
                       => now[i][4] = ref[i][4]
  /\ (pc \in ValidatedPcs \ {"clean_args"} \/ (pc = "fatal" /\ err \in {"NoCombinationsRemain", "MakeSingleError"})) =>
        \A axis \in Range(Axes) : \A v \in Range(args_orig[ExclOpt(axis)]) :
           v \notin ValuesIn(plot_config_file, axis) =>
              /\ \E i \in DOMAIN warnings : warnings[i] = <<"absent", ExclOpt(axis), v>>
              /\ v \notin Range(args[ExclOpt(axis)])

NoEmptyMetric(tree) == \A i \in DOMAIN tree : tree[i][2] # <<>>

\* No leaf of a metric that needs a threshold has an empty list.
NoEmptyNeededList(tree) ==
  \A lf \in Range(Leaves(tree)) : vx_metric_needs_thresh[lf[1]] => lf[4] # <<>>

\* C17 as amended: after the field step no metric is without fields, after
\* the level and the threshold step no metric is without fields and no
\* field without levels, after the threshold step no leaf of a metric that
\* needs a threshold has an empty list, and a tree loaded without empty
\* branches has none after any step.
C17_NoEmptyBranchAfterStep ==
  /\ AxisDone("field") => NoEmptyMetric(metrics_fields_levels_threshes_dict)
  /\ AxisDone("level") => NoEmptyBranch(metrics_fields_levels_threshes_dict)
  /\ AxisDone("thresh") => NoEmptyNeededList(metrics_fields_levels_threshes_dict)
  /\ (AxisDone("metric") /\ NoEmptyBranch(plot_config_file)) =>
        /\ NoEmptyBranch(metrics_fields_levels_threshes_dict)
        /\ NoEmptyNeededList(metrics_fields_levels_threshes_dict)

\* C17: after each axis has been processed the tree has no empty branch:
\* no metric without fields, no field without levels, no leaf of a metric
\* that needs a threshold with an empty list.
C17_NoEmptyBranchAfterAnyAxis ==
  \A axis \in Range(Axes) :
     AxisDone(axis) => /\ NoEmptyBranch(metrics_fields_levels_threshes_dict)
                       /\ NoEmptyNeededList(metrics_fields_levels_threshes_dict)

\* The level step has removed a metric all of whose levels were excluded.
C17_Witness ==
  /\ pc = "reduce_threshes"
  /\ NoEmptyBranch(plot_config_file)
  /\ args_orig["excl_levels"] # <<>>
  /\ \A o \in OptionNames \ {"excl_levels"} : args_orig[o] = <<>>
  /\ Keys(metrics_fields_levels_threshes_dict) # Keys(plot_config_file)
  /\ metrics_fields_levels_threshes_dict # <<>>

\* What the checks and the four reduction steps can make of the loaded
\* dictionary tree under the options a0: the error raised, or "ok", with
\* the dictionary they leave.
ReductionOutcomes(tree, a0) ==
  LET a1 == CleanedArgs(a0, tree)
      d1 == ReduceMetrics(tree, a0, a1)
      d2 == ReduceFields(d1, a0, a1)
      d3 == ReduceLevels(d2, a0, a1)
      n  == FirstFaultyLeaf(tree)
  IN IF n # 0 THEN {<<LeafFault(Leaves(tree)[n]), tree>>}
     ELSE IF EmptiedInclOnlyAxis(a0, a1) # "" THEN {<<"InclOnlyAllRemoved", tree>>}
     ELSE IF d1 = <<>> THEN {<<"NoCombinationsRemain", d1>>}
     ELSE IF d2 = <<>> THEN {<<"NoCombinationsRemain", d2>>}
     ELSE IF d3 = <<>> THEN {<<"NoCombinationsRemain", d3>>}
     ELSE {<<IF d4 = <<>> THEN "NoCombinationsRemain" ELSE "ok", d4>> :
             d4 \in ReduceThreshes(d3, a0, a1)}

\* C18: pruning is idempotent: the prune steps applied to the reduced tree
\* remove nothing, and the whole reduction with the same filters applied
\* to the reduced tree yields that tree again.
C18_ReductionIdempotent ==
  /\ AxisDone("field") =>
        PruneMetrics(metrics_fields_levels_threshes_dict) = metrics_fields_levels_threshes_dict
  /\ AxisDone("level") =>
        PruneFields(metrics_fields_levels_threshes_dict) = metrics_fields_levels_threshes_dict
  /\ AxisDone("thresh") =>
        /\ PruneThreshes(metrics_fields_levels_threshes_dict) = metrics_fields_levels_threshes_dict
        /\ ReductionOutcomes(metrics_fields_levels_threshes_dict, args_orig)
             = {<<"ok", metrics_fields_levels_threshes_dict>>}

C19_Step ==
  /\ pc = "clean_args" => args_orig' = args
  /\ pc # "clean_args" => args_orig' = args_orig /\ args' = args

\* What is kept of the inputs: every value left in args is in args_orig,
\* and the dictionary in the diagnostic of an emptied tree is the emptied
\* dictionary itself.
C19_Kept ==
  /\ pc \in ValidatedPcs \ {"clean_args"} =>
        \A o \in OptionNames : Range(args[o]) \subseteq Range(args_orig[o])
  /\ (pc = "fatal" /\ err = "NoCombinationsRemain") =>
        plot_config_dict["metrics_fields_levels_threshes"] = <<>>

C20_Deterministic ==
  /\ pc = "done" =>
        \A o \in ReductionOutcomes(plot_config_file, args_orig) :
           o[1] = "ok" /\ JobSequence(o[2]) = dispatched
  /\ (pc = "fatal" /\ err \in {"KeyError", "EmptyThreshList", "UnneededThreshList",
                               "InclOnlyAllRemoved", "NoCombinationsRemain"}) =>
        \A o \in ReductionOutcomes(plot_config_file, PassedArgs) : o[1] = err

\* The metric, field and level keys of the tree that are not valid values.
KeysOutsideUniverse(tree) ==
  (Keys(tree) \ Range(valid_vx_metrics))
    \cup (FieldsIn(tree) \ Range(valid_fcst_fields))
    \cup (LevelsIn(tree) \ Range(valid_fcst_levels))

\* C21: every key of the tree that is reduced and dispatched is a valid
\* value of its axis: a file with a metric, field or level key that is not
\* valid is rejected by the checks, before the option lists are cleaned,
\* and no job is ever passed on with such a key.
C21_KeysInUniverse ==
  /\ KeysOutsideUniverse(plot_config_file) # {} =>
        /\ pc \in EarlyPcs \cup {"fatal"}
        /\ num_mv_calls = 0
  /\ \A i \in DOMAIN dispatched :
        /\ dispatched[i][1] \in Range(valid_vx_metrics)
        /\ dispatched[i][2] \in Range(valid_fcst_fields)
        /\ dispatched[i][3] \in Range(valid_fcst_levels)

(***************************************************************************)
(* make_multi_mv_vx_plots(args, valid_vals, vx_metric_needs_thresh) called *)
(* with a namespace that parse_args() and main() have not checked.         *)
(***************************************************************************)
\* A value of each axis that is not among the valid ones.
OutsideUniverse == [o \in OptionNames \ {"incl_only_threshes", "excl_threshes"} |->
                      CASE AxisOf(o) = "metric" -> "foo"
                        [] AxisOf(o) = "field" -> "rh"
                        [] OTHER -> "500mb"]

\* The values passed in the lists of the metric, field and level options:
\* the first valid value of the axis or the one outside.
DirectPicks ==
  {<<o, v>> : o \in DOMAIN OutsideUniverse,
              v \in {"auc", "tmp", "2m", "foo", "rh", "500mb"}}

ValidDirectPicks ==
  {p \in DirectPicks : p[2] = OutsideUniverse[p[1]] \/ p[2] \in OptionChoices(p[1])}

DirectCalls == UNION {[1..n -> ValidDirectPicks] : n \in 0..MaxFilterVals}

DirectConfigs == {TreeBias, TreeOrder, TreeUnknownField}

\* The state at the call.
InitDirect ==
  /\ pc = "read_config"
  /\ cla = NoCla
  /\ \E cl \in DirectCalls : args = ParsedArgs(cl)
  /\ args_orig = NoArgs
  /\ preexisting_dir_method \in {"rename", "delete", "quit", "move"}
  /\ plot_config_file \in DirectConfigs
  /\ config_loaded = FALSE
  /\ metrics_fields_levels_threshes_dict = <<>>
  /\ output_dir_exists \in BOOLEAN
  /\ renamed_dir_exists = FALSE
  /\ err = "" /\ err_axis = "" /\ err_vals = {} /\ err_permitted = {}
  /\ warnings = <<>>
  /\ dispatched = <<>>
  /\ num_mv_calls = 0
  /\ num_images_generated = 0
  /\ missing_image_fns = <<>>
  /\ ordered_plots = {}

NextDirect ==
  \/ ReadPlotConfig
  \/ CheckForPreexistingDir
  \/ MakeOrderedPlotsDir
  \/ CheckThreshesInDb
  \/ CheckNeedsThresh
  \/ RemoveAbsentValues
  \/ CheckInclOnlyLeft
  \/ ReduceByMetrics
  \/ ReduceByFields
  \/ ReduceByLevels
  \/ ReduceByThreshes
  \/ WarnDeadFilters
  \/ Dispatch
  \/ Summary

SpecDirect == InitDirect /\ [][NextDirect]_vars

\* The values of the metric, field and level options that are not valid.
FilterValuesOutside(a) ==
  UNION {Range(a[o]) \ OptionChoices(o) : o \in DOMAIN OutsideUniverse}

\* C22: a filter value that is not a valid value of its axis is fatal also
\* when the lists do not come from the command-line parser:
\* make_multi_mv_vx_plots() called with such a list ends with an error
\* and does not go on to reduce the tree and dispatch jobs.
C22_FilterValuesRechecked ==
  FilterValuesOutside(PassedArgs) # {} =>
     /\ pc \in EarlyPcs \cup {"clean_args", "check_incl_only_left", "fatal"}
     /\ num_mv_calls = 0

\* One step of check_for_preexisting_dir_file().
C24_Step ==
  pc = "check_preexisting_dir" =>
     IF preexisting_dir_method \notin {"rename", "delete", "quit"}
     THEN /\ pc' = "fatal" /\ err' = "ValueError"
          /\ output_dir_exists' = output_dir_exists /\ renamed_dir_exists' = renamed_dir_exists
     ELSE IF ~output_dir_exists
     THEN /\ pc' # "fatal" /\ err' = ""
          /\ ~output_dir_exists' /\ renamed_dir_exists' = renamed_dir_exists
     ELSE /\ preexisting_dir_method = "rename" =>
               pc' # "fatal" /\ ~output_dir_exists' /\ renamed_dir_exists'
          /\ preexisting_dir_method = "delete" =>
               pc' # "fatal" /\ ~output_dir_exists' /\ renamed_dir_exists' = renamed_dir_exists
          /\ preexisting_dir_method = "quit" =>
               /\ pc' = "fatal" /\ err' = "FileExistsError"
               /\ output_dir_exists' /\ renamed_dir_exists' = renamed_dir_exists

\* After the return the path does not exist; after an exception of the
\* function nothing was or is dispatched and the path is as it was.
C24_After ==
  /\ pc = "make_ordered_plots_dir" => ~output_dir_exists
  /\ (pc = "fatal" /\ err = "FileExistsError") =>
        output_dir_exists /\ ~renamed_dir_exists /\ num_mv_calls = 0 /\ dispatched = <<>>
  /\ (pc = "fatal" /\ err = "ValueError") =>
        ~renamed_dir_exists /\ num_mv_calls = 0 /\ dispatched = <<>>

\* C24: check_for_preexisting_dir_file raises ValueError for an invalid
\* preexist_method whether or not the path exists; an existing path is
\* renamed by 'rename', removed by 'delete', and left in place by 'quit',
\* which raises FileExistsError; a path that does not exist is left alone.
\* After a return the path does not exist, and nothing is dispatched after
\* the 'quit' failure.
C24_PreexistingDir == []C24_After /\ [][C24_Step]_vars

\* An invalid method has raised for a path that does not exist.
C24_Witness ==
  /\ pc = "fatal" /\ err = "ValueError" /\ err_vals = {"move"}
  /\ ~output_dir_exists

\* The numbers in use in ordered_plots.
OrderedIndices == {e[1] : e \in ordered_plots}

\* A copy added to ordered_plots has a number above those in use.
C23_Step ==
  \A e \in ordered_plots' \ ordered_plots :
     /\ e[1] = num_mv_calls'
     /\ \A i \in OrderedIndices : i < e[1]

\* The number of every ordered copy is the position of its job among the
\* jobs dispatched, and no number is used twice.
C23_Numbering ==
  /\ \A e \in ordered_plots :
        /\ e[1] \in 1..num_mv_calls
        /\ dispatched[e[1]] = e[2]
  /\ \A e, f \in ordered_plots : e[1] = f[1] => e = f
  /\ Cardinality(ordered_plots) = num_images_generated
  /\ pc \in {"dispatch", "done"} =>
        Cardinality(OrderedIndices) + Len(missing_image_fns) = num_mv_calls

\* C23: the number of an ordered copy is the 1-based position of its job in
\* dispatch order (num_mv_calls at that job); the numbers are strictly
\* increasing and unique, and a job without image leaves its number unused.
C23_OrderedCopyIndex == []C23_Numbering /\ [][C23_Step]_vars

\* The image of the first job was missing, the second job has number 2.
C23_Witness ==
  /\ pc = "done"
  /\ 1 \notin OrderedIndices
  /\ 2 \in OrderedIndices

(***************************************************************************)
(* The earlier driver, make_mv_vx_plots.py.  Its plot configuration        *)
(* (entry vx_stats) is statistic -> field -> level -> list of thresholds,  *)
(* with [''] for a statistic without thresholds; the options               *)
(* --incl_only_stats and --excl_stats are held in the entries              *)
(* incl_only_metrics and excl_metrics of args.                             *)
(***************************************************************************)
\* {bias: {tmp: {2m: [''], 03h: ['']}}}
VxStatsBias == << E("bias", << E("tmp", << E("2m", <<"">>), E("03h", <<"">>) >>) >>) >>

\* {auc: {apcp: {03h: [ge1, ge5]}}, bias: {apcp: {03h: ['']}, tmp: {2m: ['']}}}
VxStatsTwo ==
  << E("auc", << E("apcp", << E("03h", <<"ge1", "ge5">>) >>) >>),
     E("bias", << E("apcp", << E("03h", <<"">>) >>), E("tmp", << E("2m", <<"">>) >>) >>) >>

VxStatsConfigs == {VxStatsBias, VxStatsTwo}

\* The options of the parser of make_mv_vx_plots.py.
MvOptionNames == {"incl_only_metrics", "excl_metrics", "incl_only_fields", "excl_fields",
                  "incl_only_levels", "excl_levels"}

MvCommandLines ==
  UNION {[1..n -> {p \in ValidPicks : p[1] \in MvOptionNames}] : n \in 0..MaxFilterVals}

RECURSIVE WithoutRepeats(_)
\* The keys of a dict built by a comprehension over the list s.
WithoutRepeats(s) ==
  IF s = <<>> THEN <<>>
  ELSE LET r == WithoutRepeats(SubSeq(s, 1, Len(s) - 1))
       IN IF s[Len(s)] \in Range(r) THEN r ELSE Append(r, s[Len(s)])

\* The checks that raise ValueError, in the order of the code: "" if none.
MvValueError(d, a) ==
  IF a.incl_only_metrics # <<>> /\ a.excl_metrics # <<>> THEN "stats"
  ELSE IF Range(a.incl_only_metrics) \ Keys(d) # {} THEN "stats_not_in_config"
  ELSE IF a.incl_only_fields # <<>> /\ a.excl_fields # <<>> THEN "fields"
  ELSE ""

\* vx_stats_dict after the statistics were excluded and included.
MvStats(d, a) ==
  LET popped == PopEach(d, Range(a.excl_metrics))
      ks == WithoutRepeats(a.incl_only_metrics)
  IN IF a.incl_only_metrics # <<>>
     THEN [i \in DOMAIN ks |-> <<ks[i], Get(popped, ks[i])>>]
     ELSE popped

\* stat_dict after the fields were excluded and included.
MvFieldsOfStat(stat_dict, a) ==
  LET popped == PopEach(stat_dict, Range(a.excl_fields))
      ks == WithoutRepeats(SelectSeq(a.incl_only_fields, LAMBDA f : f \in Keys(popped)))
  IN IF a.incl_only_fields # <<>>
     THEN [i \in DOMAIN ks |-> <<ks[i], Get(popped, ks[i])>>]
     ELSE popped

MvFields(d, a) == [i \in DOMAIN d |-> <<d[i][1], MvFieldsOfStat(d[i][2], a)>>]

\* The warnings for the fields of --incl_only_fields under no statistic.
MvWarnings(d, a) ==
  LET absent == SelectSeq(a.incl_only_fields,
                          LAMBDA f : \A i \in DOMAIN d : f \notin Keys(d[i][2]))
  IN [i \in DOMAIN absent |-> <<"absent", "incl_only_fields", absent[i]>>]

\* The jobs of a level, of a field, of a statistic.
MvJobsOfLevel(stat, field, level, thresholds) ==
  [i \in DOMAIN thresholds |-> <<stat, field, level, thresholds[i]>>]

MvJobsOfField(stat, field, fcst_field_dict) ==
  Flatten([i \in DOMAIN fcst_field_dict |->
             MvJobsOfLevel(stat, field, fcst_field_dict[i][1], fcst_field_dict[i][2])])

MvJobsOfStat(stat, stat_dict, a) ==
  Flatten([i \in DOMAIN stat_dict |->
             IF stat_dict[i][1] \in Range(a.excl_fields) THEN <<>>
             ELSE IF a.incl_only_fields = <<>> \/ stat_dict[i][1] \in Range(a.incl_only_fields)
             THEN MvJobsOfField(stat, stat_dict[i][1], stat_dict[i][2])
             ELSE <<>>])

\* The calls of plot_vx_metviewer() the nested loops make, in order.
MvJobs(d, a) ==
  Flatten([i \in DOMAIN d |->
             IF d[i][1] \in Range(a.excl_metrics) THEN <<>>
             ELSE IF a.incl_only_metrics = <<>> \/ d[i][1] \in Range(a.incl_only_metrics)
             THEN MvJobsOfStat(d[i][1], d[i][2], a)
             ELSE <<>>])

\* plot_vx_metviewer(args_list) does not return: as make_single_mv_vx_plot().
PlotVxMetviewerRaises(job) ==
  \/ job[1] \notin Range(valid_vx_metrics)
  \/ job[2] \notin Range(valid_fcst_fields)
  \/ job[3] \notin Range(valid_fcst_levels)
  \/ (job[4] # "" /\ job[4] \notin Range(valid_threshes_for_db))
  \/ job[3] \notin valid_fcst_levels_by_fcst_field[job[2]]

\* make_mv_vx_plots(args) up to its loops: the configuration is read
\* (vx_stats_dict is held in metrics_fields_levels_threshes_dict), the
\* pre-existing output directory is handled by the check_for_preexisting_dir_file()
\* of this script, the directory of the ordered copies is made, and the
\* statistics and fields are checked and reduced.
MvSetup ==
  /\ pc = "make_mv_vx_plots"
  /\ config_loaded' = TRUE
  /\ IF output_dir_exists /\ preexisting_dir_method = "quit"
     THEN /\ Raise("FileExistsError", "output_dir", {})
          /\ UNCHANGED <<disk, metrics_fields_levels_threshes_dict, warnings>>
     ELSE /\ output_dir_exists' = create_ordered_plots
          /\ renamed_dir_exists' = (renamed_dir_exists
                                      \/ (output_dir_exists /\ preexisting_dir_method = "rename"))
          /\ IF MvValueError(plot_config_file, args) # ""
             THEN /\ Raise("ValueError", MvValueError(plot_config_file, args), {})
                  /\ UNCHANGED <<metrics_fields_levels_threshes_dict, warnings>>
             ELSE LET d == MvFields(MvStats(plot_config_file, args), args)
                  IN /\ metrics_fields_levels_threshes_dict' = d
                     /\ warnings' = warnings \o MvWarnings(d, args)
                     /\ pc' = "mv_dispatch"
                     /\ UNCHANGED errs
  /\ UNCHANGED <<args, args_orig, inputs, counters>>

\* One pass through the body of the innermost loop of make_mv_vx_plots().
MvDispatch ==
  /\ pc = "mv_dispatch"
  /\ num_mv_calls < Len(MvJobs(metrics_fields_levels_threshes_dict, args))
  /\ LET job == MvJobs(metrics_fields_levels_threshes_dict, args)[num_mv_calls + 1]
     IN /\ num_mv_calls' = num_mv_calls + 1
        /\ dispatched' = Append(dispatched, job)
        /\ IF PlotVxMetviewerRaises(job)
           THEN /\ Raise("PlotVxMetviewerError", "job", {job})
                /\ UNCHANGED <<num_images_generated, missing_image_fns, ordered_plots,
                               output_dir_exists>>
           ELSE /\ \E image_exists \in BOOLEAN :
                     /\ ~image_exists => Len(missing_image_fns) < MaxMissing
                     /\ num_images_generated' = IF image_exists THEN num_images_generated + 1
                                                ELSE num_images_generated
                     /\ missing_image_fns' = IF image_exists THEN missing_image_fns
                                             ELSE Append(missing_image_fns, job)
                     /\ ordered_plots' =
                          IF image_exists /\ create_ordered_plots
                          THEN ordered_plots \cup {<<num_mv_calls + 1, job>>}
                          ELSE ordered_plots
                /\ output_dir_exists' = TRUE
                /\ UNCHANGED <<pc, errs>>
  /\ UNCHANGED <<args, args_orig, inputs, config_loaded, metrics_fields_levels_threshes_dict,
                 renamed_dir_exists, warnings>>

\* The loops of make_mv_vx_plots() are exhausted: the totals are logged.
MvSummary ==
  /\ pc = "mv_dispatch"
  /\ num_mv_calls = Len(MvJobs(metrics_fields_levels_threshes_dict, args))
  /\ pc' = "mv_done"
  /\ UNCHANGED <<args, args_orig, inputs, config_loaded, metrics_fields_levels_threshes_dict,
                 disk, errs, warnings, counters>>

\* The state when make_mv_vx_plots.py has parsed its command line.
InitMv ==
  /\ pc = "make_mv_vx_plots"
  /\ cla = NoCla
  /\ \E cl \in MvCommandLines : args = ParsedArgs(cl)
  /\ args_orig = NoArgs
  /\ preexisting_dir_method \in {"rename", "delete", "quit"}
  /\ plot_config_file \in VxStatsConfigs
  /\ config_loaded = FALSE
  /\ metrics_fields_levels_threshes_dict = <<>>
  /\ output_dir_exists \in BOOLEAN
  /\ renamed_dir_exists = FALSE
  /\ err = "" /\ err_axis = "" /\ err_vals = {} /\ err_permitted = {}
  /\ warnings = <<>>
  /\ dispatched = <<>>
  /\ num_mv_calls = 0
  /\ num_images_generated = 0
  /\ missing_image_fns = <<>>
  /\ ordered_plots = {}

NextMv ==
  \/ MvSetup
  \/ MvDispatch
  \/ MvSummary

SpecMv == InitMv /\ [][NextMv]_vars

\* C25: the options --incl_only_levels and --excl_levels of
\* make_mv_vx_plots.py are honoured: every job the script dispatches is
\* for a level that passes the two lists of levels.
C25_LevelOptionsHonoured ==
  pc \in {"mv_dispatch", "mv_done"} =>
     \A i \in DOMAIN dispatched :
        Passes(args, "level", dispatched[i][3])

\* The removal of absent values has been made in this state.
CleanedPcs ==
  \/ pc \in ValidatedPcs \ {"clean_args"}
  \/ pc = "fatal" /\ err \in {"InclOnlyAllRemoved", "NoCombinationsRemain", "MakeSingleError"}

\* The "absent" warnings logged for option o.
AbsentWarned(o) == SelectSeq(warnings, LAMBDA w : w[1] = "absent" /\ w[2] = o)

\* After the removal every list holds, in their order, the values passed
\* that occur in the file, and each value removed was warned about once per
\* occurrence; the run that ends because an include-only list was emptied
\* has left the dictionary as loaded.
C26_Cleaned ==
  CleanedPcs =>
     /\ \A o \in OptionNames :
           /\ IsSubseq(args[o], args_orig[o])
           /\ Range(args[o]) = Range(args_orig[o]) \cap ValuesIn(plot_config_file, AxisOf(o))
           /\ Len(args[o]) + Len(AbsentWarned(o)) = Len(args_orig[o])
           /\ {w[3] : w \in Range(AbsentWarned(o))}
                = Range(args_orig[o]) \ ValuesIn(plot_config_file, AxisOf(o))
     /\ (pc = "fatal" /\ err = "InclOnlyAllRemoved") =>
           /\ metrics_fields_levels_threshes_dict = plot_config_file
           /\ num_mv_calls = 0
           /\ args_orig[InclOpt(err_axis)] # <<>> /\ args[InclOpt(err_axis)] = <<>>

\* The step after the removal: the run ends iff an include-only list that
\* was not empty is empty now; the dictionary is not touched.
C26_Step ==
  pc = "check_incl_only_left" =>
     /\ pc' = "fatal" <=>
          \E axis \in Range(Axes) : args_orig[InclOpt(axis)] # <<>> /\ args[InclOpt(axis)] = <<>>
     /\ pc' # "fatal" => pc' = "reduce_metrics"
     /\ metrics_fields_levels_threshes_dict' = metrics_fields_levels_threshes_dict

SingleCalls ==
  [vx_metric : Range(valid_vx_metrics) \cup {"foo"},
   fcst_field : Range(valid_fcst_fields) \cup {"rh"},
   level_or_accum : Range(valid_fcst_levels) \cup {"500mb"},
   threshold : {""} \cup Range(valid_threshes_for_db) \cup ThreshesNotInDb]

\* parse_args(): a metric, field or level outside its choices ends the call.
SingleParseArgs ==
  /\ pc = "make_single_mv_vx_plot"
  /\ IF \/ cla.vx_metric \notin Range(valid_vx_metrics)
        \/ cla.fcst_field \notin Range(valid_fcst_fields)
        \/ cla.level_or_accum \notin Range(valid_fcst_levels)
     THEN Raise("SystemExit", "choices", {})
     ELSE pc' = "check_threshold" /\ UNCHANGED errs
  /\ UNCHANGED <<args, args_orig, inputs, config_loaded, metrics_fields_levels_threshes_dict,
                 disk, warnings, counters>>

\* generate_metviewer_xml(): a non-empty threshold must be valid for the database.
SingleCheckThreshold ==
  /\ pc = "check_threshold"
  /\ IF cla.threshold # "" /\ cla.threshold \notin Range(valid_threshes_for_db)
     THEN RaiseWith("ValueError", "threshold", {cla.threshold}, Range(valid_threshes_for_db))
     ELSE pc' = "check_level" /\ UNCHANGED errs
  /\ UNCHANGED <<args, args_orig, inputs, config_loaded, metrics_fields_levels_threshes_dict,
                 disk, warnings, counters>>

\* generate_metviewer_xml(): the level must be valid for the field.
SingleCheckLevel ==
  /\ pc = "check_level"
  /\ IF cla.level_or_accum \notin valid_fcst_levels_by_fcst_field[cla.fcst_field]
     THEN RaiseWith("ValueError", "level_or_accum", {cla.level_or_accum},
                    valid_fcst_levels_by_fcst_field[cla.fcst_field])
     ELSE pc' = "reset_threshold" /\ UNCHANGED errs
  /\ UNCHANGED <<args, args_orig, inputs, config_loaded, metrics_fields_levels_threshes_dict,
                 disk, warnings, counters>>

\* generate_metviewer_xml(): the threshold passed for a metric that needs
\* none is reset to the empty string.
SingleResetThreshold ==
  /\ pc = "reset_threshold"
  /\ IF ~vx_metric_needs_thresh[cla.vx_metric] /\ cla.threshold # ""
     THEN /\ cla' = [cla EXCEPT !.threshold = ""]
          /\ warnings' = Append(warnings, <<"reset", "threshold", cla.threshold>>)
     ELSE UNCHANGED <<cla, warnings>>
  /\ pc' = "generate_xml"
  /\ UNCHANGED <<args, args_orig, preexisting_dir_method, plot_config_file, config_loaded,
                 metrics_fields_levels_threshes_dict, disk, errs, counters>>

\* The xml is written from cla; its job is recorded in dispatched.
SingleGenerateXml ==
  /\ pc = "generate_xml"
  /\ dispatched' = Append(dispatched, <<cla.vx_metric, cla.fcst_field, cla.level_or_accum,
                                        cla.threshold>>)
  /\ pc' = "xml_generated"
  /\ UNCHANGED <<args, args_orig, inputs, config_loaded, metrics_fields_levels_threshes_dict,
                 disk, errs, warnings, num_mv_calls, num_images_generated, missing_image_fns,
                 ordered_plots>>

\* The state at the call.
InitSingle ==
  /\ pc = "make_single_mv_vx_plot"
  /\ cla \in SingleCalls
  /\ args = NoArgs
  /\ args_orig = NoArgs
  /\ preexisting_dir_method = "rename"
  /\ plot_config_file = <<>>
  /\ config_loaded = FALSE
  /\ metrics_fields_levels_threshes_dict = <<>>
  /\ output_dir_exists = FALSE
  /\ renamed_dir_exists = FALSE
  /\ err = "" /\ err_axis = "" /\ err_vals = {} /\ err_permitted = {}
  /\ warnings = <<>>
  /\ dispatched = <<>>
  /\ num_mv_calls = 0
  /\ num_images_generated = 0
  /\ missing_image_fns = <<>>
  /\ ordered_plots = {}

NextSingle ==
  \/ SingleParseArgs
  \/ SingleCheckThreshold
  \/ SingleCheckLevel
  \/ SingleResetThreshold
  \/ SingleGenerateXml

SpecSingle == InitSingle /\ [][NextSingle]_vars

\* C27: in make_single_mv_vx_plot, for a metric that needs no threshold
\* the threshold passed with --threshold is ignored whatever its value: the
\* call does not fail because of it, and the xml is generated with the
\* empty threshold.
C27_ThresholdIgnored ==
  (cla.vx_metric \in Range(valid_vx_metrics) /\ ~vx_metric_needs_thresh[cla.vx_metric]) =>
     /\ ~(pc = "fatal" /\ err_axis = "threshold")
     /\ pc = "xml_generated" => dispatched[1][4] = ""

\* C28: whenever the reduction completes without a fatal error, the set of
\* jobs the run dispatches equals the reference set computed on the loaded
\* tree: the combinations whose metric, field and level pass their lists
\* and whose threshold passes the threshold lists or whose metric needs no
\* threshold.
C28_JobsAreReferenceSet ==
  /\ pc \in {"warn_dead_filters", "dispatch", "done"} =>
        Range(JobSequence(metrics_fields_levels_threshes_dict))
          = RefJobs(plot_config_file, args_orig)
  /\ pc = "done" => Range(dispatched) = RefJobs(plot_config_file, args_orig)

(***************************************************************************)
(* Runs of main() in which only include-only options are passed, with      *)
(* values passed more than once.                                           *)
(***************************************************************************)
\* Largest total number of values passed to the --incl_only_* options.
MaxInclOnlyVals == 3

InclOnlyPicks ==
  {p \in ValidPicks : p[1] \in {InclOpt(axis) : axis \in Range(Axes)}
                      /\ p[2] \notin ThreshesNotInDb}

InclOnlyCommandLines == UNION {[1..n -> InclOnlyPicks] : n \in 0..MaxInclOnlyVals}

InitInclOnly ==
  /\ pc = "main"
  /\ cla = NoCla
  /\ \E cl \in InclOnlyCommandLines : args = ParsedArgs(cl)
  /\ args_orig = NoArgs
  /\ preexisting_dir_method = "rename"
  /\ plot_config_file \in {TreeBias, TreeOrder}
  /\ config_loaded = FALSE
  /\ metrics_fields_levels_threshes_dict = <<>>
  /\ output_dir_exists \in BOOLEAN
  /\ renamed_dir_exists = FALSE
  /\ err = "" /\ err_axis = "" /\ err_vals = {} /\ err_permitted = {}
  /\ warnings = <<>>
  /\ dispatched = <<>>
  /\ num_mv_calls = 0
  /\ num_images_generated = 0
  /\ missing_image_fns = <<>>
  /\ ordered_plots = {}

SpecInclOnly == InitInclOnly /\ [][Next]_vars

\* How often the value v occurs in the list s.
Occurrences(s, v) == Cardinality({i \in DOMAIN s : s[i] = v})

\* The warnings of one kind ("absent" before the reduction, "dead" after
\* it) about the value v of option o.
WarningsAbout(kind, o, v) == Occurrences(warnings, <<kind, o, v>>)

\* The run has reached the dispatch loop.
ReachedDispatch ==
  \/ pc \in {"dispatch", "done"}
  \/ pc = "fatal" /\ err = "MakeSingleError"

InclOnlyValues == {<<InclOpt(axis), v>> : axis \in Range(Axes), v \in OptionChoices("incl_only_threshes")
                                            \cup OptionChoices("incl_only_metrics")
                                            \cup OptionChoices("incl_only_fields")
                                            \cup OptionChoices("incl_only_levels")}

\* C29 as stated: in a run that reaches the dispatch loop an include-only
\* value is warned about exactly when it is absent from the final tree, and
\* exactly once: before the reduction if it is absent from the loaded tree,
\* after it otherwise.
C29_WarnedExactlyOnce ==
  ReachedDispatch =>
     \A p \in InclOnlyValues :
        LET o == p[1]
            v == p[2]
            final == ValuesIn(metrics_fields_levels_threshes_dict, AxisOf(o))
            loaded == ValuesIn(plot_config_file, AxisOf(o))
        IN v \in Range(args_orig[o]) =>
              /\ WarningsAbout("absent", o, v) + WarningsAbout("dead", o, v)
                   = IF v \in final THEN 0 ELSE 1
              /\ v \notin loaded => WarningsAbout("dead", o, v) = 0
              /\ v \in loaded => WarningsAbout("absent", o, v) = 0

\* C29, amended: the warning is logged once for every time the value was
\* passed.
C29_WarnedOncePerOccurrence ==
  ReachedDispatch =>
     \A p \in InclOnlyValues :
        LET o == p[1]
            v == p[2]
            final == ValuesIn(metrics_fields_levels_threshes_dict, AxisOf(o))
            loaded == ValuesIn(plot_config_file, AxisOf(o))
        IN /\ WarningsAbout("absent", o, v) + WarningsAbout("dead", o, v)
                = IF v \in final THEN 0 ELSE Occurrences(args_orig[o], v)
           /\ v \notin loaded => WarningsAbout("dead", o, v) = 0
           /\ v \in loaded => WarningsAbout("absent", o, v) = 0

\* A value passed twice and absent from the file was warned about twice,
\* and the run has dispatched a job.
C29_Witness ==
  /\ pc = "done"
  /\ num_mv_calls > 0
  /\ \E p \in InclOnlyValues :
        /\ Occurrences(args_orig[p[1]], p[2]) = 2
        /\ WarningsAbout("absent", p[1], p[2]) = 2

\* The phases of a run, in their order.
Phases == <<"main", "read_config", "check_preexisting_dir", "make_ordered_plots_dir",
            "check_threshes_in_db", "check_needs_thresh", "clean_args", "check_incl_only_left",
            "reduce_metrics", "reduce_fields", "reduce_levels", "reduce_threshes",
            "warn_dead_filters", "dispatch", "done">>

PhaseOf(p) == CHOOSE i \in DOMAIN Phases : Phases[i] = p

\* The errors that end a run in phase p.
ErrorsOfPhase(p) ==
  CASE p = "main" -> {"BothInclOnlyAndExcl"}
    [] p = "check_preexisting_dir" -> {"FileExistsError", "ValueError"}
    [] p = "check_threshes_in_db" -> {"ThreshesNotInDb"}
    [] p = "check_needs_thresh" -> {"KeyError", "EmptyThreshList", "UnneededThreshList"}
    [] p = "check_incl_only_left" -> {"InclOnlyAllRemoved"}
    [] p \in ReducePcs -> {"NoCombinationsRemain"}
    [] p = "dispatch" -> {"MakeSingleError"}
    [] OTHER -> {}

\* A step goes to the next phase, stays in the dispatch loop, or ends the
\* run with an error of its phase; the directory is handled in its phase.
C30_Step ==
  /\ pc' # pc =>
        \/ pc' = "fatal" /\ err' \in ErrorsOfPhase(pc)
        \/ pc' # "fatal" /\ pc # "fatal" /\ PhaseOf(pc') = PhaseOf(pc) + 1
  /\ pc' = pc => pc = "dispatch"
  /\ config_loaded' # config_loaded => pc = "read_config"
  /\ renamed_dir_exists' # renamed_dir_exists => pc = "check_preexisting_dir"
  /\ (pc = "check_preexisting_dir" /\ output_dir_exists /\ pc' # "fatal") =>
        /\ ~output_dir_exists'
        /\ renamed_dir_exists' = (preexisting_dir_method = "rename")

\* What has and has not happened when the run is in a phase or has ended
\* with an error.
C30_Done ==
  /\ (pc \in {"main", "read_config"} \/ (pc = "fatal" /\ err = "BothInclOnlyAndExcl")) =>
        ~config_loaded /\ ~renamed_dir_exists /\ warnings = <<>> /\ num_mv_calls = 0
  /\ (pc = "fatal" /\ err = "FileExistsError") =>
        config_loaded /\ output_dir_exists /\ ~renamed_dir_exists /\ warnings = <<>>
  /\ (pc = "fatal" /\ err \in {"ThreshesNotInDb", "KeyError", "EmptyThreshList",
                               "UnneededThreshList", "InclOnlyAllRemoved",
                               "NoCombinationsRemain"}) =>
        /\ config_loaded
        /\ output_dir_exists = create_ordered_plots
        /\ renamed_dir_exists => preexisting_dir_method = "rename"
        /\ num_mv_calls = 0
  /\ (pc = "fatal" /\ err \in {"ThreshesNotInDb", "KeyError", "EmptyThreshList",
                               "UnneededThreshList"}) =>
        /\ warnings = <<>>
        /\ metrics_fields_levels_threshes_dict = plot_config_file
  /\ num_mv_calls > 0 => ReachedDispatch

\* C30: the phases of a run follow one another in this order: the
\* mutual-exclusivity checks before the configuration is read, then the
\* handling of a pre-existing output directory, then the check of the
\* thresholds of the options, the needs-threshold check, the removal of
\* absent values, the reduction and the dispatch; a run ended by a
\* threshold, needs-threshold or NoCombinationsRemain error has already
\* renamed or deleted a pre-existing output directory.
C30_PhaseOrder == []C30_Done /\ [][C30_Step]_vars

\* A run ended by the check of the thresholds after it had renamed the
\* pre-existing output directory.
C30_Witness ==
  /\ pc = "fatal" /\ err = "ThreshesNotInDb"
  /\ renamed_dir_exists

====
